---- MODULE Spec2Model ----
(***************************************************************************)
(* Cable-tray routing engine of backend/app/routers/cable_routing.py.      *)
(*                                                                         *)
(* One request to /optimize-paths is modelled as a state machine:          *)
(*   init -> mst_built -> (iterate . adopt)* -> converged -> done | error  *)
(*                                                                         *)
(* Numbers.  The program computes with floats; the model keeps them as     *)
(* exact integers:                                                         *)
(*   - a cost is held as a multiple of 1/40 (Fx(n, d) is n/d in that       *)
(*     unit), which represents every weight of _compute_weight and of      *)
(*     calculate_cell_weight for redCable in {1, .55, .45, .35, .25, .15}; *)
(*   - redCable is held in twentieths (20 is 1.0, 11 is 0.55, ...);        *)
(*   - a length is held in tenths of a metre, and gridResolution in tenths *)
(*     of a metre per cell.                                                *)
(* A cell is the pair <<x, y>>.                                            *)
(***************************************************************************)
EXTENDS Integers, Sequences, FiniteSets, TLC

VARIABLES
    config,               \* the GridConfig of the request (cables as received)
    pc,                   \* position of the handler
    cables,               \* config.cables after the validity filter
    walls,                \* walls minus perforations
    dist_wall, dist_tray, \* the two distance maps
    graph_cache,          \* redCable -> weighted graph
    terminals,            \* machine cells, then adopted Steiner points
    mst_edges,            \* current MST edge list
    pair_routes,          \* (u, v) -> [cost, path]
    init_length, current_length,
    used_steiner_points,
    pass_id, improved_any, passes_used, total_comps_used,
    candidate,            \* outcome of the last iteration: best_comp, best_new_mst
    response              \* the RoutingResponse, or the error

vars == <<config, pc, cables, walls, dist_wall, dist_tray, graph_cache,
          terminals, mst_edges, pair_routes, init_length, current_length,
          used_steiner_points, pass_id, improved_any, passes_used,
          total_comps_used, candidate, response>>

(***************************************************************************)
(* Generic helpers                                                         *)
(***************************************************************************)
Inf == 1000000

None == [found |-> FALSE, cost |-> 0, path |-> <<>>]

Abs(n) == IF n < 0 THEN -n ELSE n

Min2(a, b) == IF a <= b THEN a ELSE b

Max2(a, b) == IF a >= b THEN a ELSE b

Fx(n, d) == (n * 40) \div d

Range(s) == {s[i] : i \in 1..Len(s)}

Reverse(s) == [i \in 1..Len(s) |-> s[Len(s) + 1 - i]]

\* the sum of the entries lo..hi: a half plus the other half
RECURSIVE SumIn(_, _, _)
SumIn(s, lo, hi) ==
    IF lo > hi THEN 0
    ELSE IF lo = hi THEN s[lo]
    ELSE SumIn(s, lo, (lo + hi) \div 2) + SumIn(s, (lo + hi) \div 2 + 1, hi)

SumSeq(s) == SumIn(s, 1, Len(s))

Manhattan(a, b) == Abs(a[1] - b[1]) + Abs(a[2] - b[2])

InGrid(c, width, height) ==
    /\ 0 <= c[1] /\ c[1] < width
    /\ 0 <= c[2] /\ c[2] < height

GridCells(width, height) == (0..(width - 1)) \X (0..(height - 1))

\* the neighbour order of every 4-neighbour loop of the program
Around(c) == << <<c[1] - 1, c[2]>>, <<c[1] + 1, c[2]>>,
                <<c[1], c[2] - 1>>, <<c[1], c[2] + 1>> >>

(***************************************************************************)
(* Distance transform                                                      *)
(***************************************************************************)
RECURSIVE BfsLevels(_, _, _, _, _)
BfsLevels(dist, frontier, d, width, height) ==
    IF frontier = {} THEN dist
    ELSE LET next == {n \in GridCells(width, height) :
                          /\ dist[n] > d + 1
                          /\ \E c \in frontier : Manhattan(c, n) = 1}
         IN BfsLevels([c \in DOMAIN dist |-> IF c \in next THEN d + 1 ELSE dist[c]],
                      next, d + 1, width, height)

bfs_distance_map(width, height, sources) ==
    LET seeds == {p \in sources : InGrid(p, width, height)}
    IN BfsLevels([c \in GridCells(width, height) |-> IF c \in seeds THEN 0 ELSE Inf],
                 seeds, 0, width, height)

(***************************************************************************)
(* Weights                                                                 *)
(***************************************************************************)
base_weight == 10

FullRed == 20

compute_weight(dw, dt, redCable) ==
    IF dt = 0 /\ redCable = FullRed THEN 0
    ELSE IF dw = Inf THEN Fx(base_weight, 1)
    ELSE IF dw = 0 THEN Fx(base_weight * 10, 1)
    ELSE IF dw = 1 THEN Fx(base_weight * 35, 100)
    ELSE IF dw = 2 THEN Fx(base_weight * 55 * redCable, 100 * FullRed)
    ELSE IF dw = 3 THEN
        IF redCable # FullRed
        THEN Fx(base_weight * 7 * redCable, 10 * FullRed * 2)
        ELSE Fx(base_weight * 7 * redCable, 10 * FullRed)
    ELSE Fx(base_weight * redCable, FullRed)

RECURSIVE MinDist(_, _)
MinDist(c, pts) ==
    IF pts = {} THEN Inf
    ELSE LET p == CHOOSE q \in pts : TRUE
         IN Min2(Manhattan(c, p), MinDist(c, pts \ {p}))

\* calculate_cell_weight at its default redCalble = 1.0, as it is always called
calculate_cell_weight(c, wallset, trayset) ==
    IF MinDist(c, trayset) = 0 THEN Fx(-40, 100)
    ELSE LET d == MinDist(c, wallset)
         IN IF d = Inf THEN Fx(base_weight, 1)
            ELSE IF d = 0 THEN Fx(base_weight * 10, 1)
            ELSE IF d = 1 THEN Fx(base_weight * 3, 10)
            ELSE IF d = 2 THEN Fx(base_weight * 5, 10)
            ELSE IF d = 3 THEN Fx(base_weight * 7, 10)
            ELSE Fx(base_weight, 1)

(***************************************************************************)
(* Weighted graph: cell -> sequence of <<neighbour, weight>>                *)
(***************************************************************************)
\* variant: walls are nodes and neighbours like any other cell
build_weighted_graph_over_walls(width, height, wallset, redCable, dw, dt) ==
    [p \in GridCells(width, height) |->
        LET ar == Around(p)
            idx == SelectSeq(<<1, 2, 3, 4>>, LAMBDA i : InGrid(ar[i], width, height))
        IN [k \in 1..Len(idx) |->
               <<ar[idx[k]], compute_weight(dw[ar[idx[k]]], dt[ar[idx[k]]], redCable)>>]]

\* variant: an edge weighs what the cell it leaves weighs
build_weighted_graph_by_source(width, height, wallset, redCable, dw, dt) ==
    [p \in GridCells(width, height) \ wallset |->
        LET ar == Around(p)
            ok(i) == InGrid(ar[i], width, height) /\ ar[i] \notin wallset
            idx == SelectSeq(<<1, 2, 3, 4>>, ok)
        IN [k \in 1..Len(idx) |->
               <<ar[idx[k]], compute_weight(dw[p], dt[p], redCable)>>]]

build_weighted_graph(width, height, wallset, redCable, dw, dt) ==
    [p \in GridCells(width, height) \ wallset |->
        LET ar == Around(p)
            ok(i) == InGrid(ar[i], width, height) /\ ar[i] \notin wallset
            idx == SelectSeq(<<1, 2, 3, 4>>, ok)
        IN [k \in 1..Len(idx) |->
               <<ar[idx[k]], compute_weight(dw[ar[idx[k]]], dt[ar[idx[k]]], redCable)>>]]

(***************************************************************************)
(* heapq on tuples whose first two components are (cost, counter): the     *)
(* heap is held as the sequence of its entries in pop order.               *)
(***************************************************************************)
HeapLess(a, b) == a[1] < b[1] \/ (a[1] = b[1] /\ a[2] < b[2])

heappush(heap, e) ==
    LET before(x) == HeapLess(x, e)
        after(x) == ~HeapLess(x, e)
    IN SelectSeq(heap, before) \o <<e>> \o SelectSeq(heap, after)

\* came_from[start] = None; no machine of the model sits on this cell
NoCell == <<-1, -1>>

\* up to n steps back along came_from, a half and then the other half; st is
\* [node, path], the path from st.node excluded to the end
RECURSIVE PathSteps(_, _, _)
PathSteps(came_from, st, n) ==
    IF st.node = NoCell THEN st
    ELSE IF n <= 1
    THEN [node |-> came_from[st.node], path |-> <<st.node>> \o st.path]
    ELSE PathSteps(came_from, PathSteps(came_from, st, n \div 2), n - n \div 2)

\* the walk back to the start; no path has more cells than came_from has keys
PathBack(came_from, node) ==
    PathSteps(came_from, [node |-> node, path |-> <<>>],
              Cardinality(DOMAIN came_from) + 1).path

(***************************************************************************)
(* Single-target Dijkstra                                                  *)
(***************************************************************************)
\* variant: a neighbour not yet visited is pushed whatever its cost so far
RECURSIVE DijkstraRelax_any_cost(_, _, _, _, _)
DijkstraRelax_any_cost(st, nbrs, i, current, current_cost) ==
    IF i > Len(nbrs) THEN st
    ELSE LET neighbor == nbrs[i][1]
             new_cost == current_cost + nbrs[i][2]
         IN IF neighbor \in st.visited
            THEN DijkstraRelax_any_cost(st, nbrs, i + 1, current, current_cost)
            ELSE DijkstraRelax_any_cost(
                     [st EXCEPT !.distances[neighbor] = new_cost,
                                !.came_from[neighbor] = current,
                                !.heap = heappush(@, <<new_cost, st.counter, neighbor>>),
                                !.counter = @ + 1],
                     nbrs, i + 1, current, current_cost)

RECURSIVE DijkstraRelax(_, _, _, _, _)
DijkstraRelax(st, nbrs, i, current, current_cost) ==
    IF i > Len(nbrs) THEN st
    ELSE LET neighbor == nbrs[i][1]
             new_cost == current_cost + nbrs[i][2]
         IN IF neighbor \in st.visited
            THEN DijkstraRelax(st, nbrs, i + 1, current, current_cost)
            ELSE IF st.distances[neighbor] = Inf \/ new_cost < st.distances[neighbor]
            THEN DijkstraRelax(
                     [st EXCEPT !.distances[neighbor] = new_cost,
                                !.came_from[neighbor] = current,
                                !.heap = heappush(@, <<new_cost, st.counter, neighbor>>),
                                !.counter = @ + 1],
                     nbrs, i + 1, current, current_cost)
            ELSE DijkstraRelax(st, nbrs, i + 1, current, current_cost)

\* one turn of the loop "while heap"; once st.done, st.out is the value returned,
\* its path still to be read off st.came_from, which no later turn changes
DijkstraTurn(st, end, graph) ==
    IF st.heap = <<>> THEN [st EXCEPT !.done = TRUE]
    ELSE LET top == Head(st.heap)
             current_cost == top[1]
             current == top[3]
             popped == [st EXCEPT !.heap = Tail(@)]
         IN IF current \in st.visited THEN popped
            ELSE IF current = end
            THEN [popped EXCEPT !.done = TRUE,
                                !.out = [found |-> TRUE, cost |-> current_cost,
                                         path |-> <<current>>]]
            ELSE DijkstraRelax([popped EXCEPT !.visited = @ \cup {current}],
                               graph[current], 1, current, current_cost)

\* the next n turns of the loop, or fewer when it ends: a half, then the rest
RECURSIVE DijkstraTurns(_, _, _, _)
DijkstraTurns(st, end, graph, n) ==
    IF st.done THEN st
    ELSE IF n <= 1 THEN DijkstraTurn(st, end, graph)
    ELSE DijkstraTurns(DijkstraTurns(st, end, graph, n \div 2), end, graph,
                       n - n \div 2)

\* the loop to its end; a turn pops one entry and there is at most one entry
\* per edge of the graph, so one round of turns ends the loop
RECURSIVE DijkstraLoop(_, _, _)
DijkstraLoop(st, end, graph) ==
    IF st.done
    THEN IF st.out.found
         THEN [st.out EXCEPT !.path = PathBack(st.came_from, st.out.path[1])]
         ELSE st.out
    ELSE DijkstraLoop(DijkstraTurns(st, end, graph, 4 * Cardinality(DOMAIN graph) + 2),
                      end, graph)

dijkstra_path(start, end, graph) ==
    IF start \notin DOMAIN graph \/ end \notin DOMAIN graph THEN None
    ELSE DijkstraLoop([heap |-> << <<0, 0, start>> >>,
                       counter |-> 1,
                       distances |-> [c \in DOMAIN graph |-> IF c = start THEN 0 ELSE Inf],
                       came_from |-> [c \in DOMAIN graph |-> NoCell],
                       visited |-> {},
                       done |-> FALSE,
                       out |-> None],
                      end, graph)

(***************************************************************************)
(* Multi-target Dijkstra.  results is the dict in insertion order, as a     *)
(* sequence of [tgt, cost, path]; crashed is the KeyError of graph[current] *)
(* for a cell that is no node of the graph.                                *)
(***************************************************************************)
RECURSIVE TargetsRelax(_, _, _, _, _)
TargetsRelax(st, nbrs, i, current, current_cost) ==
    IF i > Len(nbrs) THEN st
    ELSE LET neighbor == nbrs[i][1]
             new_cost == current_cost + nbrs[i][2]
         IN IF st.distances[neighbor] = Inf \/ new_cost < st.distances[neighbor]
            THEN TargetsRelax(
                     [st EXCEPT !.distances[neighbor] = new_cost,
                                !.came_from[neighbor] = current,
                                !.heap = heappush(@, <<new_cost, st.counter, neighbor>>),
                                !.counter = @ + 1],
                     nbrs, i + 1, current, current_cost)
            ELSE TargetsRelax(st, nbrs, i + 1, current, current_cost)

\* one turn of the loop "while heap and targets_remaining"; a result keeps the
\* came_from of its turn, off which TargetsLoop reads its path
TargetsTurn(st, graph) ==
    IF st.heap = <<>> \/ st.targets_remaining = {} THEN [st EXCEPT !.done = TRUE]
    ELSE LET top == Head(st.heap)
             current_cost == top[1]
             current == top[3]
             popped == [st EXCEPT !.heap = Tail(@)]
         IN IF current_cost # st.distances[current] THEN popped
            ELSE LET hit == current \in st.targets_remaining
                     st1 == IF hit
                            THEN [popped EXCEPT
                                     !.results = Append(@, [tgt |-> current,
                                                            cost |-> current_cost,
                                                            came_from |-> st.came_from]),
                                     !.targets_remaining = @ \ {current}]
                            ELSE popped
                 IN IF hit /\ st1.targets_remaining = {}
                    THEN [st1 EXCEPT !.done = TRUE]
                    ELSE IF current \notin DOMAIN graph
                    THEN [st1 EXCEPT !.done = TRUE, !.crashed = TRUE]
                    ELSE TargetsRelax(st1, graph[current], 1, current, current_cost)

\* the next n turns of the loop, or fewer when it ends: a half, then the rest
RECURSIVE TargetsTurns(_, _, _)
TargetsTurns(st, graph, n) ==
    IF st.done THEN st
    ELSE IF n <= 1 THEN TargetsTurn(st, graph)
    ELSE TargetsTurns(TargetsTurns(st, graph, n \div 2), graph, n - n \div 2)

RECURSIVE TargetsLoop(_, _)
TargetsLoop(st, graph) ==
    IF st.done
    THEN [crashed |-> st.crashed,
          results |-> [i \in 1..Len(st.results) |->
                          [tgt |-> st.results[i].tgt, cost |-> st.results[i].cost,
                           path |-> PathBack(st.results[i].came_from,
                                             st.results[i].tgt)]]]
    ELSE TargetsLoop(TargetsTurns(st, graph, 4 * Cardinality(DOMAIN graph) + 2), graph)

dijkstra_to_targets(source, target_set, graph) ==
    IF target_set = {} THEN [crashed |-> FALSE, results |-> <<>>]
    ELSE TargetsLoop([heap |-> << <<0, 0, source>> >>,
                      counter |-> 1,
                      distances |-> [c \in DOMAIN graph \cup {source} |->
                                        IF c = source THEN 0 ELSE Inf],
                      came_from |-> [c \in DOMAIN graph \cup {source} |-> NoCell],
                      results |-> <<>>,
                      targets_remaining |-> target_set,
                      done |-> FALSE,
                      crashed |-> FALSE],
                     graph)

(***************************************************************************)
(* Lazy Prim MST                                                           *)
(***************************************************************************)
PutRoute(pr, u, v, cost, path) ==
    (<<v, u>> :> [cost |-> cost, path |-> Reverse(path)])
        @@ (<<u, v>> :> [cost |-> cost, path |-> path]) @@ pr

\* the loop "for tgt, (cost, path) in _dijkstra_to_targets(...).items()"
RECURSIVE StoreTargets(_, _, _, _)
StoreTargets(st, src, results, i) ==
    IF i > Len(results) THEN st
    ELSE LET r == results[i]
         IN StoreTargets(
                [st EXCEPT !.pair_routes = PutRoute(@, src, r.tgt, r.cost, r.path),
                           !.edge_heap = heappush(@, <<r.cost, st.counter, src, r.tgt>>),
                           !.counter = @ + 1],
                src, results, i + 1)

\* "while edge_heap and both ends of edge_heap[0] are visited: heappop": the heap
\* from its first entry with an end not visited
DropVisited(heap, visited) ==
    LET kept == {i \in 1..Len(heap) : ~(heap[i][3] \in visited /\ heap[i][4] \in visited)}
    IN IF kept = {} THEN <<>>
       ELSE SubSeq(heap, CHOOSE i \in kept : \A j \in kept : i <= j, Len(heap))

\* one turn of the loop "while len(visited) < len(terminals)"
MstLazyTurn(st, terms, graph) ==
    IF ~(Cardinality(st.visited) < Len(terms)) THEN [st EXCEPT !.done = TRUE]
    ELSE LET heap == DropVisited(st.edge_heap, st.visited)
         IN IF heap = <<>> THEN [st EXCEPT !.edge_heap = heap, !.done = TRUE]
            ELSE LET u == Head(heap)[3]
                     v == Head(heap)[4]
                     st1 == [st EXCEPT !.edge_heap = Tail(heap)]
                 IN IF v \in st.visited THEN st1
                    ELSE LET st2 == [st1 EXCEPT !.mst_edges = Append(@, <<u, v>>),
                                                !.visited = @ \cup {v}]
                             remaining == Range(terms) \ st2.visited
                             grown(found) ==
                                 IF found.crashed
                                 THEN [st2 EXCEPT !.crashed = TRUE, !.done = TRUE]
                                 ELSE StoreTargets(st2, v, found.results, 1)
                         IN grown(dijkstra_to_targets(v, remaining, graph))

\* the next n turns of the loop, or fewer when it ends: a half, then the rest
RECURSIVE MstLazyTurns(_, _, _, _)
MstLazyTurns(st, terms, graph, n) ==
    IF st.done THEN st
    ELSE IF n <= 1 THEN MstLazyTurn(st, terms, graph)
    ELSE MstLazyTurns(MstLazyTurns(st, terms, graph, n \div 2), terms, graph,
                      n - n \div 2)

\* the loop to its end; a turn pops one entry or ends the loop
RECURSIVE MstLazyLoop(_, _, _)
MstLazyLoop(st, terms, graph) ==
    IF st.done THEN st
    ELSE MstLazyLoop(MstLazyTurns(st, terms, graph, Len(terms) * Len(terms) + 1),
                     terms, graph)

build_mst_lazy(terms, graph) ==
    IF terms = <<>>
    THEN [crashed |-> FALSE, mst_edges |-> <<>>, pair_routes |-> <<>>]
    ELSE LET start == terms[1]
             st0 == [crashed |-> FALSE, visited |-> {start}, pair_routes |-> <<>>,
                     mst_edges |-> <<>>, edge_heap |-> <<>>, counter |-> 0,
                     done |-> FALSE]
             grown(found) == IF found.crashed THEN [st0 EXCEPT !.crashed = TRUE]
                             ELSE MstLazyLoop(StoreTargets(st0, start, found.results, 1),
                                              terms, graph)
             result(end) == [crashed |-> end.crashed, mst_edges |-> end.mst_edges,
                             pair_routes |-> end.pair_routes]
         IN result(grown(dijkstra_to_targets(start, Range(Tail(terms)), graph)))

(***************************************************************************)
(* Prim MST on the stored pair routes                                      *)
(***************************************************************************)
\* the loop "for w in terminals: if w not in visited: if (v, w) in pair_routes"
RECURSIVE PushFrom(_, _, _, _, _, _)
PushFrom(st, v, pts, pr, i, visited) ==
    IF i > Len(pts) THEN st
    ELSE IF pts[i] \notin visited /\ <<v, pts[i]>> \in DOMAIN pr
    THEN PushFrom([st EXCEPT !.heap = heappush(@, <<pr[<<v, pts[i]>>].cost,
                                                      st.counter, v, pts[i]>>),
                             !.counter = @ + 1],
                  v, pts, pr, i + 1, visited)
    ELSE PushFrom(st, v, pts, pr, i + 1, visited)

\* one turn of the loop "while len(visited) < len(terminals) and edges_heap"
WallAwareTurn(st, pts, pr) ==
    IF ~(Cardinality(st.visited) < Len(pts) /\ st.heap # <<>>)
    THEN [st EXCEPT !.done = TRUE]
    ELSE LET u == Head(st.heap)[3]
             v == Head(st.heap)[4]
             st1 == [st EXCEPT !.heap = Tail(@)]
         IN IF v \in st.visited THEN st1
            ELSE LET st2 == [st1 EXCEPT !.visited = @ \cup {v},
                                        !.mst_edges = Append(@, <<u, v>>)]
                 IN PushFrom(st2, v, pts, pr, 1, st2.visited)

\* the next n turns of the loop, or fewer when it ends: a half, then the rest
RECURSIVE WallAwareTurns(_, _, _, _)
WallAwareTurns(st, pts, pr, n) ==
    IF st.done THEN st
    ELSE IF n <= 1 THEN WallAwareTurn(st, pts, pr)
    ELSE WallAwareTurns(WallAwareTurns(st, pts, pr, n \div 2), pts, pr, n - n \div 2)

\* the loop to its end; a turn pops one entry or ends the loop
RECURSIVE WallAwareLoop(_, _, _)
WallAwareLoop(st, pts, pr) ==
    IF st.done THEN st.mst_edges
    ELSE WallAwareLoop(WallAwareTurns(st, pts, pr, Len(pts) * Len(pts) + 1), pts, pr)

find_wall_aware_mst(pts, pr) ==
    IF pts = <<>> THEN <<>>
    ELSE WallAwareLoop(
             PushFrom([visited |-> {pts[1]}, mst_edges |-> <<>>,
                       heap |-> <<>>, counter |-> 0, done |-> FALSE],
                      pts[1], Tail(pts), pr, 1, {}),
             pts, pr)

\* variant: every step of a path counts as one base weight
mst_total_length_in_steps(edges, pr) ==
    SumSeq([i \in 1..Len(edges) |->
               IF edges[i] \in DOMAIN pr
               THEN Fx(base_weight * (Len(pr[edges[i]].path) - 1), 1) ELSE 0])

mst_total_length(edges, pr) ==
    SumSeq([i \in 1..Len(edges) |->
               IF edges[i] \in DOMAIN pr THEN pr[edges[i]].cost ELSE 0])

(***************************************************************************)
(* Iteration order of a Python set of cells.  The program iterates sets in *)
(* hash order; the request carries the order (config.order) so that every  *)
(* result is checked under more than one order.                            *)
(***************************************************************************)
CellLess(a, b) == a[1] < b[1] \/ (a[1] = b[1] /\ a[2] < b[2])

\* the k-th cell is the one with k - 1 cells before it
SetList(S, order) ==
    LET before(c, d) == IF order = "asc" THEN CellLess(c, d) ELSE CellLess(d, c)
    IN [k \in 1..Cardinality(S) |->
           CHOOSE c \in S : Cardinality({d \in S : before(d, c)}) = k - 1]

RECURSIVE Flatten(_)
Flatten(ss) == IF ss = <<>> THEN <<>> ELSE Head(ss) \o Flatten(Tail(ss))

\* list.sort(key = ...) is stable: an entry goes after the entries whose key
\* is not larger (ascending) or not smaller (descending)
SortByDist(s) ==
    LET ahead(i) == {j \in 1..Len(s) :
                        \/ s[j].dist < s[i].dist
                        \/ s[j].dist = s[i].dist /\ j < i}
    IN [k \in 1..Len(s) |->
           s[CHOOSE i \in 1..Len(s) : Cardinality(ahead(i)) = k - 1]]

SortByGain(s) ==
    LET ahead(i) == {j \in 1..Len(s) :
                        \/ s[j].gain > s[i].gain
                        \/ s[j].gain = s[i].gain /\ j < i}
    IN [k \in 1..Len(s) |->
           s[CHOOSE i \in 1..Len(s) : Cardinality(ahead(i)) = k - 1]]

Take(s, n) == SubSeq(s, 1, Min2(n, Len(s)))

\* TRUE; a loop reads its accumulator through this at each turn, which has TLC
\* evaluate the accumulator turn after turn and not all turns at the end
Evaluated(acc) == DOMAIN acc = DOMAIN acc

(***************************************************************************)
(* Requests                                                                *)
(***************************************************************************)
MachineCell(machines, name) ==
    LET i == CHOOSE j \in 1..Len(machines) : machines[j].name = name
    IN machines[i].cell

MachineNames(machines) == {machines[i].name : i \in 1..Len(machines)}

\* cid = cb.cableLabel or f"{cb.source}-{cb.target}"
CableId(cb) == IF cb.cableLabel # "" THEN cb.cableLabel
               ELSE cb.source \o "-" \o cb.target

(***************************************************************************)
(* Candidate terminal groups                                               *)
(***************************************************************************)
max_groups == 50

nearby_count == 5

\* net = cable.network or "default", in order of first use
RECURSIVE NetworkOrder(_, _)
NetworkOrder(cbs, seen) ==
    IF cbs = <<>> THEN <<>>
    ELSE LET net == IF Head(cbs).network # "" THEN Head(cbs).network ELSE "default"
         IN IF net \in seen THEN NetworkOrder(Tail(cbs), seen)
            ELSE <<net>> \o NetworkOrder(Tail(cbs), seen \cup {net})

NetworkTerminals(cbs, machines, net) ==
    UNION {{MachineCell(machines, cbs[i].source), MachineCell(machines, cbs[i].target)} :
              i \in {j \in 1..Len(cbs) :
                        (IF cbs[j].network # "" THEN cbs[j].network ELSE "default") = net}}

GroupsAround(t1, near) ==
    LET n == Len(near)
        four(a, b) ==
            LET t2 == near[a]
                t3 == near[b]
                ok4(c) == /\ near[c] \notin {t1, t2, t3}
                          /\ Abs(t1[1] - t2[1]) > Abs(t3[1] - near[c][1])
                          /\ Abs(t3[2] - near[c][2]) > Abs(t1[2] - t2[2])
                idx == SelectSeq([c \in 1..n |-> c], ok4)
            IN [k \in 1..Len(idx) |-> <<t1, t2, t3, near[idx[k]]>>]
        three(a, b) ==
            LET t2 == near[a]
                t3 == near[b]
            IN IF Abs(t1[1] - t2[1]) + Abs(t2[2] - t3[2])
                    < Abs(t1[1] - t3[1]) + Abs(t2[2] - t1[2])
               THEN << <<t1, t2, t3>> >> ELSE <<>>
    IN Flatten([a \in 1..n |->
           Flatten([b \in 1..n |->
               IF near[a] = near[b] THEN <<>> ELSE three(a, b) \o four(a, b)])])

NetworkGroups(net_terminals, pr, order) ==
    LET ts == SetList(net_terminals, order)
        around(i) ==
            LET t1 == ts[i]
                has(j) == ts[j] # t1 /\ <<t1, ts[j]>> \in DOMAIN pr
                idx == SelectSeq([j \in 1..Len(ts) |-> j], has)
                cand == [k \in 1..Len(idx) |->
                            [dist |-> pr[<<t1, ts[idx[k]]>>].cost, pt |-> ts[idx[k]]]]
                near == Take(SortByDist(cand), nearby_count)
            IN GroupsAround(t1, [k \in 1..Len(near) |-> near[k].pt])
    IN IF Cardinality(net_terminals) < 3 THEN <<>>
       ELSE Flatten([i \in 1..Len(ts) |-> around(i)])

\* the groups lo..hi of the list, a half and then the other half; st is
\* [seen, kept], a group is kept when its set is new and room is left
RECURSIVE UniqueIn(_, _, _, _)
UniqueIn(groups, lo, hi, st) ==
    IF lo > hi \/ Len(st.kept) >= max_groups THEN st
    ELSE IF lo = hi
    THEN IF Range(groups[lo]) \in st.seen THEN st
         ELSE [seen |-> st.seen \cup {Range(groups[lo])},
               kept |-> Append(st.kept, groups[lo])]
    ELSE UniqueIn(groups, (lo + hi) \div 2 + 1, hi,
                  UniqueIn(groups, lo, (lo + hi) \div 2, st))

UniqueGroups(groups, seen, kept) ==
    UniqueIn(groups, 1, Len(groups), [seen |-> seen, kept |-> kept]).kept

find_promising_terminal_groups(pr, cbs, machines, order) ==
    LET nets == NetworkOrder(cbs, {})
    IN UniqueGroups(
           Flatten([n \in 1..Len(nets) |->
                       NetworkGroups(NetworkTerminals(cbs, machines, nets[n]), pr, order)]),
           {}, <<>>)

\* itertools.combinations(terminals, size) for size 3 then 4, by position
Combinations(terms) ==
    LET n == Len(terms)
        c3 == {t \in (1..n) \X (1..n) \X (1..n) : t[1] < t[2] /\ t[2] < t[3]}
        c4 == {t \in (1..n) \X (1..n) \X (1..n) \X (1..n) :
                  t[1] < t[2] /\ t[2] < t[3] /\ t[3] < t[4]}
        TupLess(a, b) == \E k \in 1..Len(a) :
                             /\ a[k] < b[k]
                             /\ \A j \in 1..(k - 1) : a[j] = b[j]
        Pick(m) == [k \in 1..Len(m) |-> terms[m[k]]]
        Ordered(S) ==
            [r \in 1..Cardinality(S) |->
                Pick(CHOOSE a \in S : Cardinality({b \in S : TupLess(b, a)}) = r - 1)]
    IN Ordered(c3) \o Ordered(c4)

(***************************************************************************)
(* Candidate components and their gain                                     *)
(***************************************************************************)
SumWeights(cells, wallset, trayset) ==
    LET listed(cs) ==
            SumSeq([k \in 1..Len(cs) |-> calculate_cell_weight(cs[k], wallset, trayset)])
    IN listed(SetList(cells, "asc"))

\* cells of path[1:] over a list of paths, each counted once
MergedCells(paths) == UNION {Range(Tail(paths[i])) : i \in 1..Len(paths)}

\* get_path: pair_routes first, then a fresh Dijkstra stored in both directions
get_path(u, v, pr, graph) ==
    IF <<u, v>> \in DOMAIN pr
    THEN [pair_routes |-> pr, path |-> pr[<<u, v>>].path]
    ELSE LET stored(res) ==
                 IF res.found
                 THEN [pair_routes |-> PutRoute(pr, u, v, res.cost, res.path),
                       path |-> res.path]
                 ELSE [pair_routes |-> pr, path |-> <<>>]
         IN stored(dijkstra_path(u, v, graph))

RECURSIVE NewPaths(_, _, _, _, _)
NewPaths(connections, i, pr, graph, acc) ==
    IF i > Len(connections) THEN [pair_routes |-> pr, paths |-> acc, routed |-> TRUE]
    ELSE LET next(got) ==
                 IF got.path = <<>>
                 THEN [pair_routes |-> got.pair_routes, paths |-> acc, routed |-> FALSE]
                 ELSE NewPaths(connections, i + 1, got.pair_routes, graph,
                               Append(acc, got.path))
         IN next(get_path(connections[i][1], connections[i][2], pr, graph))

InGroup(edges, group_set) ==
    LET within(e) == e[1] \in group_set /\ e[2] \in group_set
    IN SelectSeq(edges, within)

component_gain(connections, group_set, edges, pr, graph, wallset, trayset) ==
    LET old_paths(old) == [i \in 1..Len(old) |-> pr[old[i]].path]
        removed == SumWeights(MergedCells(old_paths(InGroup(edges, group_set))),
                              wallset, trayset)
        added(paths) == SumWeights(MergedCells(paths), wallset, trayset)
        gain_val(new) == [pair_routes |-> new.pair_routes,
                          gain |-> IF new.routed THEN removed - added(new.paths)
                                   ELSE -Inf]
    IN gain_val(NewPaths(connections, 1, pr, graph, <<>>))

RemovedLb(group_set, edges, pr) ==
    LET costs(old) == [i \in 1..Len(old) |-> pr[old[i]].cost]
    IN SumSeq(costs(InGroup(edges, group_set)))

SetMax(S) == CHOOSE m \in S : \A n \in S : n <= m

SetMin(S) == CHOOSE m \in S : \A n \in S : m <= n

SpanLb(group_set) ==
    LET xs == {p[1] : p \in group_set}
        ys == {p[2] : p \in group_set}
    IN (SetMax(xs) - SetMin(xs)) + (SetMax(ys) - SetMin(ys))

Median3(a, b, c) == a + b + c - Min2(a, Min2(b, c)) - Max2(a, Max2(b, c))

\* the 3-terminal branch; st is [pair_routes, comps]
ThreeTerminal(group, st, edges, graph, wallset, trayset) ==
    LET t1 == group[1]
        t2 == group[2]
        t3 == group[3]
        group_set == {t1, t2, t3}
        removed_lb == RemovedLb(group_set, edges, st.pair_routes)
        sp == <<Median3(t1[1], t2[1], t3[1]), Median3(t1[2], t2[2], t3[2])>>
        lb_cost == Manhattan(sp, t1) + Manhattan(sp, t2) + Manhattan(sp, t3)
        conns == << <<sp, t1>>, <<sp, t2>>, <<sp, t3>> >>
    IN IF removed_lb - Fx(SpanLb(group_set), 1) <= 0 THEN st
       ELSE IF removed_lb - Fx(lb_cost, 1) <= 0 THEN st
       ELSE IF ~(/\ dijkstra_path(sp, t1, graph).found
                 /\ dijkstra_path(sp, t2, graph).found
                 /\ dijkstra_path(sp, t3, graph).found) THEN st
       ELSE LET tried(cg) ==
                    [pair_routes |-> cg.pair_routes,
                     comps |-> IF cg.gain > 0
                               THEN Append(st.comps,
                                           [terminals |-> group,
                                            steiner_points |-> <<sp>>,
                                            connections |-> conns,
                                            gain |-> cg.gain])
                               ELSE st.comps]
            IN tried(component_gain(conns, group_set, edges, st.pair_routes,
                                    graph, wallset, trayset))

\* one of the two orderings of the pair partition of a 4-terminal group
RECURSIVE FourPairs(_, _, _, _, _, _, _, _, _)
FourPairs(orderings, i, group_set, st, edges, graph, wallset, trayset, order) ==
    IF i > Len(orderings) THEN st
    ELSE LET pA == orderings[i][1][1]
             pB == orderings[i][1][2]
             pC == orderings[i][2][1]
             pD == orderings[i][2][2]
             spA == <<pA[1], pB[2]>>
             spB == <<pC[1], pD[2]>>
             conns == << <<spA, pA>>, <<spA, pB>>, <<spB, pC>>, <<spB, pD>>,
                         <<spA, spB>> >>
             routable == /\ dijkstra_path(spA, pA, graph).found
                         /\ dijkstra_path(spA, pB, graph).found
                         /\ dijkstra_path(spB, pC, graph).found
                         /\ dijkstra_path(spB, pD, graph).found
                         /\ dijkstra_path(spA, spB, graph).found
         IN IF ~routable
            THEN FourPairs(orderings, i + 1, group_set, st, edges, graph,
                           wallset, trayset, order)
            ELSE LET tried(cg) ==
                         [pair_routes |-> cg.pair_routes,
                          comps |-> IF cg.gain > 0
                                    THEN Append(st.comps,
                                             [terminals |-> SetList(group_set, order),
                                              steiner_points |-> <<spA, spB>>,
                                              connections |-> conns,
                                              gain |-> cg.gain])
                                    ELSE st.comps]
                 IN FourPairs(orderings, i + 1, group_set,
                              tried(component_gain(conns, group_set, edges,
                                                   st.pair_routes, graph, wallset,
                                                   trayset)),
                              edges, graph, wallset, trayset, order)

FourTerminal(group, st, edges, graph, wallset, trayset, order) ==
    LET t1 == group[1]
        t2 == group[2]
        t3 == group[3]
        t4 == group[4]
        group_set == {t1, t2, t3, t4}
        removed_lb == RemovedLb(group_set, edges, st.pair_routes)
        xs == {p[1] : p \in group_set}
        ys == {p[2] : p \in group_set}
        cx == (SetMin(xs) + SetMax(xs)) \div 2
        cy == (SetMin(ys) + SetMax(ys)) \div 2
        gs == SetList(group_set, order)
        lb_cost == SumSeq([k \in 1..Len(gs) |-> Manhattan(gs[k], <<cx, cy>>)])
        pair_groups == IF Abs(t1[1] - t2[1]) < Abs(t1[2] - t2[2])
                       THEN << <<t1, t2>>, <<t3, t4>> >>
                       ELSE << <<t1, t3>>, <<t2, t4>> >>
    IN IF removed_lb - Fx(SpanLb(group_set), 1) <= 0 THEN st
       ELSE IF removed_lb - Fx(lb_cost, 1) <= 0 THEN st
       ELSE FourPairs(<<pair_groups, Reverse(pair_groups)>>, 1, group_set, st,
                      edges, graph, wallset, trayset, order)

\* the groups lo..hi of the loop "for group in groups", a half and then the
\* other half
RECURSIVE ComponentsIn(_, _, _, _, _, _, _, _, _)
ComponentsIn(groups, lo, hi, st, edges, graph, wallset, trayset, order) ==
    IF lo > hi \/ ~Evaluated(st) THEN st
    ELSE IF lo = hi
    THEN IF Len(groups[lo]) = 3
         THEN ThreeTerminal(groups[lo], st, edges, graph, wallset, trayset)
         ELSE FourTerminal(groups[lo], st, edges, graph, wallset, trayset, order)
    ELSE ComponentsIn(groups, (lo + hi) \div 2 + 1, hi,
                      ComponentsIn(groups, lo, (lo + hi) \div 2, st,
                                   edges, graph, wallset, trayset, order),
                      edges, graph, wallset, trayset, order)

ComponentsOf(groups, i, st, edges, graph, wallset, trayset, order) ==
    ComponentsIn(groups, i, Len(groups), st, edges, graph, wallset, trayset, order)

\* returns [pair_routes, comps]: the candidates sorted by gain, and the pair
\* routes as get_path left them
generate_all_components(terms, edges, pr, graph, wallset, trayset, cbs, machines, order) ==
    LET groups == IF cbs # <<>> /\ machines # <<>>
                  THEN find_promising_terminal_groups(pr, cbs, machines, order)
                  ELSE Combinations(terms)
        sorted(st) == [pair_routes |-> st.pair_routes, comps |-> SortByGain(st.comps)]
    IN sorted(ComponentsOf(groups, 1, [pair_routes |-> pr, comps |-> <<>>],
                           edges, graph, wallset, trayset, order))

(***************************************************************************)
(* MST update                                                              *)
(***************************************************************************)
RECURSIVE RouteConnections(_, _, _, _)
RouteConnections(connections, i, pr, graph) ==
    IF i > Len(connections) THEN pr
    ELSE LET u == connections[i][1]
             v == connections[i][2]
             stored(res) == IF res.found THEN PutRoute(pr, u, v, res.cost, res.path)
                            ELSE pr
         IN RouteConnections(connections, i + 1,
                IF <<u, v>> \notin DOMAIN pr
                THEN stored(dijkstra_path(u, v, graph)) ELSE pr,
                graph)

\* variant: only the first end of every edge
EdgePoints_first_ends(edges) == {edges[i][1] : i \in 1..Len(edges)}

EdgePoints(edges) == UNION {{edges[i][1], edges[i][2]} : i \in 1..Len(edges)}

\* for one component; returns [pair_routes, new_mst]
update_mst_with_components(edges, comp, pr, graph, order) ==
    LET points == EdgePoints(edges) \cup Range(comp.steiner_points)
        rerun(pr1) == [pair_routes |-> pr1,
                       new_mst |-> find_wall_aware_mst(SetList(points, order), pr1)]
    IN rerun(RouteConnections(comp.connections, 1, pr, graph))

\* variant: the last candidate of positive improvement
RECURSIVE BestComponent_last_gain(_, _, _, _, _, _, _, _)
BestComponent_last_gain(comps, lo, hi, st, edges, length, graph, order) ==
    IF lo > hi \/ ~Evaluated(st) THEN st
    ELSE IF lo = hi
    THEN LET improvement(upd) ==
                 length - mst_total_length(upd.new_mst, upd.pair_routes)
             better(upd) ==
                 IF improvement(upd) > 0
                 THEN [pair_routes |-> upd.pair_routes, found |-> TRUE,
                       improvement |-> improvement(upd), comp |-> comps[lo],
                       new_mst |-> upd.new_mst]
                 ELSE [st EXCEPT !.pair_routes = upd.pair_routes]
         IN better(update_mst_with_components(edges, comps[lo], st.pair_routes,
                                              graph, order))
    ELSE BestComponent_last_gain(comps, (lo + hi) \div 2 + 1, hi,
             BestComponent_last_gain(comps, lo, (lo + hi) \div 2, st, edges, length, graph, order),
             edges, length, graph, order)

\* the loop "for comp in comps" of one iteration: the first candidate with the
\* strictly largest improvement; st is [pair_routes, found, improvement, comp, new_mst]
RECURSIVE BestComponent(_, _, _, _, _, _, _, _)
BestComponent(comps, lo, hi, st, edges, length, graph, order) ==
    IF lo > hi \/ ~Evaluated(st) THEN st
    ELSE IF lo = hi
    THEN LET improvement(upd) ==
                 length - mst_total_length(upd.new_mst, upd.pair_routes)
             better(upd) ==
                 IF improvement(upd) > st.improvement
                 THEN [pair_routes |-> upd.pair_routes, found |-> TRUE,
                       improvement |-> improvement(upd), comp |-> comps[lo],
                       new_mst |-> upd.new_mst]
                 ELSE [st EXCEPT !.pair_routes = upd.pair_routes]
         IN better(update_mst_with_components(edges, comps[lo], st.pair_routes,
                                              graph, order))
    ELSE BestComponent(comps, (lo + hi) \div 2 + 1, hi,
             BestComponent(comps, lo, (lo + hi) \div 2, st, edges, length, graph, order),
             edges, length, graph, order)

NoComponent == [terminals |-> <<>>, steiner_points |-> <<>>, connections |-> <<>>,
                gain |-> 0]

\* the choice of best_comp among the candidates gen = [pair_routes, comps]
ChooseBest(gen, edges, length, graph, order) ==
    BestComponent(gen.comps, 1, Len(gen.comps),
        [pair_routes |-> gen.pair_routes, found |-> FALSE,
         improvement |-> 0, comp |-> NoComponent, new_mst |-> <<>>],
        edges, length, graph, order) @@ [comps |-> gen.comps]

\* one iteration of the inner loop up to the choice of best_comp
Iteration(terms, edges, pr, length, graph, wallset, trayset, cbs, machines, order) ==
    ChooseBest(generate_all_components(terms, edges, pr, graph, wallset, trayset,
                                       cbs, machines, order),
               edges, length, graph, order)

(***************************************************************************)
(* Tree adjacency, T-junctions, cable routes                               *)
(***************************************************************************)
EdgePath(e, pr) == IF e \in DOMAIN pr THEN pr[e].path ELSE <<>>

build_mst_adjacency(edges, pr) ==
    LET steps == UNION {{{EdgePath(edges[i], pr)[k], EdgePath(edges[i], pr)[k + 1]} :
                            k \in 1..(Len(EdgePath(edges[i], pr)) - 1)} :
                        i \in 1..Len(edges)}
    IN [p \in UNION steps |-> {q \in UNION steps : {p, q} \in steps /\ q # p}]

detect_steiner_points(adjacency) ==
    {p \in DOMAIN adjacency : Cardinality(adjacency[p]) >= 3}

RECURSIVE SplitPath(_, _, _, _, _)
SplitPath(path, i, steiner, current_segment, segments) ==
    IF i > Len(path) THEN segments
    ELSE LET seg == Append(current_segment, path[i])
         IN IF i < Len(path)
            THEN IF path[i] \in steiner /\ i # 1
                 THEN SplitPath(path, i + 1, steiner, <<path[i]>>, Append(segments, seg))
                 ELSE SplitPath(path, i + 1, steiner, seg, segments)
            ELSE Append(segments, seg)

split_path_at_steiner_points(path, steiner) == SplitPath(path, 1, steiner, <<>>, <<>>)

\* "for nbr in adjacency[current]: if nbr not in came_from"
RECURSIVE RouteVisit(_, _, _, _)
RouteVisit(st, nbrs, i, current) ==
    IF i > Len(nbrs) THEN st
    ELSE IF nbrs[i] \in st.seen THEN RouteVisit(st, nbrs, i + 1, current)
    ELSE RouteVisit([st EXCEPT !.seen = @ \cup {nbrs[i]},
                               !.came_from[nbrs[i]] = current,
                               !.queue = Append(@, nbrs[i])],
                    nbrs, i + 1, current)

\* one turn of the loop "while queue"; once st.done, st.out holds the cell the
\* route returned ends at, or nothing when the queue ran out
RouteTurn(st, dst, adjacency, order) ==
    IF st.queue = <<>> THEN [st EXCEPT !.done = TRUE]
    ELSE LET current == Head(st.queue)
         IN IF current = dst
            THEN [st EXCEPT !.done = TRUE, !.out = <<current>>]
            ELSE RouteVisit([st EXCEPT !.queue = Tail(@)],
                            SetList(adjacency[current], order), 1, current)

\* the next n turns of the loop, or fewer when it ends: a half, then the rest
RECURSIVE RouteTurns(_, _, _, _, _)
RouteTurns(st, dst, adjacency, order, n) ==
    IF st.done THEN st
    ELSE IF n <= 1 THEN RouteTurn(st, dst, adjacency, order)
    ELSE RouteTurns(RouteTurns(st, dst, adjacency, order, n \div 2), dst, adjacency,
                    order, n - n \div 2)

\* the loop to its end; a turn takes one cell off the queue or ends the loop
RECURSIVE RouteLoop(_, _, _, _)
RouteLoop(st, dst, adjacency, order) ==
    IF st.done
    THEN IF st.out = <<>> THEN <<>> ELSE PathBack(st.came_from, st.out[1])
    ELSE RouteLoop(RouteTurns(st, dst, adjacency, order,
                              Cardinality(DOMAIN adjacency) + 1),
                   dst, adjacency, order)

\* variant: the search runs from dst towards src
find_cable_route_from_target(src, dst, edges, pr, order) ==
    LET adjacency == build_mst_adjacency(edges, pr)
    IN IF src \notin DOMAIN adjacency \/ dst \notin DOMAIN adjacency THEN <<>>
       ELSE RouteLoop([queue |-> <<dst>>, seen |-> {dst},
                       came_from |-> [c \in DOMAIN adjacency |-> NoCell],
                       done |-> FALSE, out |-> <<>>],
                      src, adjacency, order)

find_cable_route(src, dst, edges, pr, order) ==
    LET adjacency == build_mst_adjacency(edges, pr)
    IN IF src \notin DOMAIN adjacency \/ dst \notin DOMAIN adjacency THEN <<>>
       ELSE RouteLoop([queue |-> <<src>>, seen |-> {src},
                       came_from |-> [c \in DOMAIN adjacency |-> NoCell],
                       done |-> FALSE, out |-> <<>>],
                      dst, adjacency, order)

(***************************************************************************)
(* Sections                                                                *)
(***************************************************************************)
\* network_lookup[func] = net["name"]; a later network overrides an earlier one
NetworkLookup(networks, func) ==
    LET has == {i \in 1..Len(networks) : func \in Range(networks[i].functions)}
    IN IF func = "" \/ has = {} THEN "" ELSE networks[SetMax(has)].name

RECURSIVE FirstSeen(_, _)
FirstSeen(names, seen) ==
    IF names = <<>> THEN <<>>
    ELSE IF Head(names) \in seen THEN FirstSeen(Tail(names), seen)
    ELSE <<Head(names)>> \o FirstSeen(Tail(names), seen \cup {Head(names)})

\* the keys of the dict cable_routes, in insertion order
RouteOrder(cbs) == FirstSeen([i \in 1..Len(cbs) |-> CableId(cbs[i])], {})

\* the dict cable_routes: the route of the last cable of each id
CableRoutes(cbs, machines, edges, pr, order) ==
    [cid \in Range(RouteOrder(cbs)) |->
        LET cb == cbs[SetMax({i \in 1..Len(cbs) : CableId(cbs[i]) = cid})]
        IN find_cable_route(MachineCell(machines, cb.source),
                            MachineCell(machines, cb.target), edges, pr, order)]

stroke_base == 4

\* strokeWidth in hundredths: 4 + min(len(used_cables) * 0.75, 15)
StrokeWidth(n) == stroke_base * 100 + Min2(n * 75, 15 * 100)

SegmentSections(segs, net_name, net_cables, routes) ==
    LET used(k) == {CableId(net_cables[i]) : i \in {j \in 1..Len(net_cables) :
                       Cardinality(Range(segs[k])
                           \cap Range(routes[CableId(net_cables[j])])) >= 2}}
        keep(k) == Len(segs[k]) >= 2 /\ used(k) # {}
        idx == SelectSeq([k \in 1..Len(segs) |-> k], keep)
    IN [n \in 1..Len(idx) |->
           [points |-> segs[idx[n]], cables |-> used(idx[n]), network |-> net_name,
            strokeWidth |-> StrokeWidth(Cardinality(used(idx[n])))]]

convert_to_sections(final_mst, cbs, machines, networks, pr, order) ==
    LET steiner == detect_steiner_points(build_mst_adjacency(final_mst, pr))
        routes == CableRoutes(cbs, machines, final_mst, pr, order)
        netof(i) == NetworkLookup(networks, cbs[i].cableFunction)
        nets == FirstSeen(SelectSeq([i \in 1..Len(cbs) |-> netof(i)],
                                    LAMBDA n : n # ""), {})
        of_net(n) == LET idx == SelectSeq([i \in 1..Len(cbs) |-> i],
                                          LAMBDA i : netof(i) = nets[n])
                     IN [k \in 1..Len(idx) |-> cbs[idx[k]]]
        of_edge(n, e) ==
            IF EdgePath(final_mst[e], pr) = <<>> THEN <<>>
            ELSE SegmentSections(
                     split_path_at_steiner_points(EdgePath(final_mst[e], pr), steiner),
                     nets[n], of_net(n), routes)
    IN Flatten([n \in 1..Len(nets) |->
           Flatten([e \in 1..Len(final_mst) |-> of_edge(n, e)])])

(***************************************************************************)
(* Declared lengths.  A length string is the sequence of its characters;   *)
(* the parsed value is in tenths of a metre (digits after the first        *)
(* decimal are dropped: no length of the model has any).                   *)
(***************************************************************************)
Digits == <<"0", "1", "2", "3", "4", "5", "6", "7", "8", "9">>

DigitValue(ch) == (CHOOSE i \in 1..10 : Digits[i] = ch) - 1

IsDigit(ch) == ch \in Range(Digits)

RECURSIVE Strip(_)
Strip(txt) ==
    IF txt # <<>> /\ Head(txt) = " " THEN Strip(Tail(txt))
    ELSE IF txt # <<>> /\ txt[Len(txt)] = " " THEN Strip(SubSeq(txt, 1, Len(txt) - 1))
    ELSE txt

RECURSIVE DigitsValue(_)
DigitsValue(ds) ==
    IF ds = <<>> THEN 0
    ELSE DigitsValue(SubSeq(ds, 1, Len(ds) - 1)) * 10 + DigitValue(ds[Len(ds)])

\* the digits before and after the decimal point, in tenths
Magnitude(body, dots) ==
    LET whole == IF dots = {} THEN body ELSE SubSeq(body, 1, SetMin(dots) - 1)
        frac == IF dots = {} THEN <<>> ELSE SubSeq(body, SetMin(dots) + 1, Len(body))
        valid == /\ Cardinality(dots) <= 1
                 /\ \A i \in 1..Len(body) : IsDigit(body[i]) \/ body[i] = "."
                 /\ Len(body) - Cardinality(dots) >= 1
    IN [valid |-> valid,
        value |-> IF ~valid THEN 0
                  ELSE DigitsValue(whole) * 10
                           + (IF frac = <<>> THEN 0 ELSE DigitValue(frac[1]))]

Signed(t, magnitude) ==
    IF ~magnitude.valid THEN [some |-> FALSE, value |-> 0]
    ELSE [some |-> TRUE,
          value |-> IF t # <<>> /\ Head(t) = "-" THEN -magnitude.value
                    ELSE magnitude.value]

Unsigned(t) == IF t # <<>> /\ Head(t) \in {"-", "+"} THEN Tail(t) ELSE t

Dots(body) == {i \in 1..Len(body) : body[i] = "."}

\* float(txt) for an optional sign, digits and at most one "."
ParseFloat(txt) ==
    LET parsed(t) == Signed(t, Magnitude(Unsigned(t), Dots(Unsigned(t))))
    IN parsed(Strip(txt))

\* val.strip().lower().replace("m", "").replace(",", ".")
Normalise(stripped) ==
    LET lower == [i \in 1..Len(stripped) |->
                     IF stripped[i] = "M" THEN "m" ELSE stripped[i]]
        no_m(txt) == SelectSeq(txt, LAMBDA ch : ch # "m")
        dotted(txt) == [i \in 1..Len(txt) |-> IF txt[i] = "," THEN "." ELSE txt[i]]
    IN dotted(no_m(lower))

parse_length(val) ==
    IF val = <<>> THEN [some |-> FALSE, value |-> 0]
    ELSE ParseFloat(Normalise(Strip(val)))

(***************************************************************************)
(* Final routes, length check and response                                 *)
(***************************************************************************)
max_passes == 5

\* variant: only the source is looked up
ValidCables_by_source(cbs, machines) ==
    SelectSeq(cbs, LAMBDA cb : cb.source \in MachineNames(machines))

ValidCables(cbs, machines) ==
    SelectSeq(cbs, LAMBDA cb : /\ cb.source \in MachineNames(machines)
                               /\ cb.target \in MachineNames(machines))

\* the length check of one cable: kind is "none" (no declared length),
\* "ok" (accepted), "problem" (recorded) or "crash" (ZeroDivisionError)
LengthVerdict(cb, expected, actual_len, theoretical_min_len) ==
    LET over == actual_len - expected.value
        entry == [cableLabel |-> cb.cableLabel, source |-> cb.source,
                  target |-> cb.target, specifiedLength |-> expected.value,
                  routeLength |-> actual_len,
                  theoreticalMinLength |-> theoretical_min_len,
                  excessLength |-> over,
                  excessPercentage |-> [num |-> 100 * over, den |-> expected.value]]
        kind == IF ~expected.some THEN "none"
                ELSE IF /\ actual_len <= expected.value
                        /\ (cb.source # "CUS" \/ cb.target # "CUS") THEN "ok"
                ELSE IF expected.value = 0 THEN "crash"
                ELSE "problem"
    IN [kind |-> kind, entry |-> entry]

LengthCheck(cb, route, machines, resolution) ==
    LengthVerdict(cb, parse_length(cb.length),
                  Max2(0, Len(route) - 1) * resolution,
                  Manhattan(MachineCell(machines, cb.source),
                            MachineCell(machines, cb.target)) * resolution)

\* variant: the network a cable declares is ignored
FallbackSections_undeclared(sections, cbs, networks, routes) ==
    LET in_sections == UNION {sections[i].cables : i \in 1..Len(sections)}
        ids == SelectSeq(RouteOrder(cbs), LAMBDA cid : cid \notin in_sections)
        first(cid) == cbs[SetMin({i \in 1..Len(cbs) : CableId(cbs[i]) = cid})]
        net(cb) == IF NetworkLookup(networks, cb.cableFunction) # ""
                   THEN NetworkLookup(networks, cb.cableFunction)
                   ELSE "default"
    IN [k \in 1..Len(ids) |->
           [points |-> routes[ids[k]], cables |-> {ids[k]},
            network |-> net(first(ids[k])), strokeWidth |-> stroke_base * 100]]

FallbackSections(sections, cbs, networks, routes) ==
    LET in_sections == UNION {sections[i].cables : i \in 1..Len(sections)}
        ids == SelectSeq(RouteOrder(cbs), LAMBDA cid : cid \notin in_sections)
        first(cid) == cbs[SetMin({i \in 1..Len(cbs) : CableId(cbs[i]) = cid})]
        net(cb) == IF NetworkLookup(networks, cb.cableFunction) # ""
                   THEN NetworkLookup(networks, cb.cableFunction)
                   ELSE IF cb.network # "" THEN cb.network ELSE "default"
    IN [k \in 1..Len(ids) |->
           [points |-> routes[ids[k]], cables |-> {ids[k]},
            network |-> net(first(ids[k])), strokeWidth |-> stroke_base * 100]]

ErrorResponse == [status |-> "error"]

NoResponse == [status |-> "none"]

\* the RoutingResponse, or the 500 of a ZeroDivisionError in the length check
Respond(checks, kept, routes, all_points, all_steiner, debug_info) ==
    IF \E i \in 1..Len(checks) : checks[i].kind = "crash" THEN ErrorResponse
    ELSE LET bad == SelectSeq(checks, LAMBDA c : c.kind = "problem")
         IN [status |-> "ok",
             sections |-> kept,
             cableRoutes |-> routes,
             hananGrid |-> [xCoords |-> {p[1] : p \in all_points},
                            yCoords |-> {p[2] : p \in all_points}],
             steinerPoints |-> all_steiner,
             debug_info |-> debug_info @@ [num_steiner_points |-> Cardinality(all_steiner),
                                           num_sections |-> Len(kept)],
             problematicCables |-> [i \in 1..Len(bad) |-> bad[i].entry]]

AllSections(network_sections, cbs, networks, routes) ==
    SelectSeq(network_sections
                  \o FallbackSections(network_sections, cbs, networks, routes),
              LAMBDA sec : sec.cables # {})

WithSteiner(checks, kept, routes, terms, all_steiner, debug_info) ==
    Respond(checks, kept, routes, Range(terms) \cup all_steiner, all_steiner, debug_info)

WithRoutes(cfg, cbs, terms, edges, pr, used, routes, debug_info) ==
    WithSteiner([i \in 1..Len(cbs) |->
                    LengthCheck(cbs[i],
                        find_cable_route(MachineCell(cfg.machines, cbs[i].source),
                                         MachineCell(cfg.machines, cbs[i].target),
                                         edges, pr, cfg.order),
                        cfg.machines, cfg.gridResolution)],
                AllSections(convert_to_sections(edges, cbs, cfg.machines,
                                                cfg.networks, pr, cfg.order),
                            cbs, cfg.networks, routes),
                routes, terms,
                used \cup detect_steiner_points(build_mst_adjacency(edges, pr)),
                debug_info)

BuildResponse(cfg, cbs, terms, edges, pr, used, init_len, final_len, comps_used, passes) ==
    WithRoutes(cfg, cbs, terms, edges, pr, used,
               CableRoutes(cbs, cfg.machines, edges, pr, cfg.order),
               [initial_mst_length |-> init_len,
                final_length |-> final_len,
                num_components_tried |-> 0,
                num_components_used |-> comps_used,
                passes_used |-> passes])

(***************************************************************************)
(* The steps of the handler as functions of the request                    *)
(***************************************************************************)
\* variant: the perforations are not taken out
PassableWalls_unperforated(cfg) == cfg.walls

\* walls -= perfs
PassableWalls(cfg) == cfg.walls \ cfg.perforations

\* get_graph(red): the cache entry is built on first use
get_graph(cache, red, cfg, wallset, dw, dt) ==
    IF red \in DOMAIN cache THEN cache
    ELSE (red :> build_weighted_graph(cfg.width, cfg.height, wallset, red, dw, dt))
             @@ cache

\* machines[cable.source] / machines[cable.target] of a cable that names no
\* machine raises KeyError
LookupFails(cbs, machines) ==
    \E i \in 1..Len(cbs) : \/ cbs[i].source \notin MachineNames(machines)
                           \/ cbs[i].target \notin MachineNames(machines)

Terminals(cfg) == [i \in 1..Len(cfg.machines) |-> cfg.machines[i].cell]

\* the multi-pass loop from a state st = [terminals, mst_edges, pair_routes,
\* current_length, used_steiner_points, pass_id, improved_any, passes_used,
\* total_comps_used] to the state the loop ends in
RECURSIVE Passes(_, _, _, _, _)
Passes(st, cfg, cbs, wallset, graph) ==
    LET it == Iteration(st.terminals, st.mst_edges, st.pair_routes, st.current_length,
                        graph, wallset, cfg.trays, cbs, cfg.machines, cfg.order)
        seen == [st EXCEPT !.pair_routes = it.pair_routes]
    IN IF it.found /\ it.improvement > 0
       THEN Passes([seen EXCEPT
                       !.mst_edges = it.new_mst,
                       !.current_length = @ - it.improvement,
                       !.used_steiner_points = @ \cup Range(it.comp.steiner_points),
                       !.terminals = @ \o SelectSeq(it.comp.steiner_points,
                                          LAMBDA sp : sp \notin Range(st.terminals)),
                       !.total_comps_used = @ + 1,
                       !.improved_any = TRUE],
                   cfg, cbs, wallset, graph)
       ELSE IF st.improved_any /\ st.pass_id < max_passes
       THEN Passes([seen EXCEPT !.passes_used = st.pass_id, !.pass_id = @ + 1,
                                !.improved_any = FALSE],
                   cfg, cbs, wallset, graph)
       ELSE [seen EXCEPT !.passes_used = IF st.improved_any THEN st.pass_id ELSE @]

\* the whole handler: the response to a request
optimize_cable_paths(cfg) ==
    LET cbs == ValidCables(cfg.cables, cfg.machines)
        wallset == PassableWalls(cfg)
        dw == bfs_distance_map(cfg.width, cfg.height, wallset)
        dt == bfs_distance_map(cfg.width, cfg.height, cfg.trays)
        graph == get_graph(<<>>, FullRed, cfg, wallset, dw, dt)[FullRed]
        built == build_mst_lazy(Terminals(cfg), graph)
        length == mst_total_length(built.mst_edges, built.pair_routes)
        end == Passes([terminals |-> Terminals(cfg), mst_edges |-> built.mst_edges,
                       pair_routes |-> built.pair_routes, current_length |-> length,
                       used_steiner_points |-> {}, pass_id |-> 1,
                       improved_any |-> FALSE, passes_used |-> 0,
                       total_comps_used |-> 0],
                      cfg, cbs, wallset, graph)
    IN IF built.crashed \/ LookupFails(cbs, cfg.machines) THEN ErrorResponse
       ELSE BuildResponse(cfg, cbs, end.terminals, end.mst_edges, end.pair_routes,
                          end.used_steiner_points, length, end.current_length,
                          end.total_comps_used, end.passes_used)

(***************************************************************************)
(* Requests of the model                                                   *)
(***************************************************************************)
GridSize == 3

MaxWalls == 2

Orders == {"asc", "desc"}

Cable(label, source, target, function, network, length) ==
    [cableLabel |-> label, source |-> source, target |-> target,
     cableFunction |-> function, network |-> network, length |-> length]

Machines(names, cells) == [i \in 1..Len(cells) |-> [name |-> names[i],
                                                    cell |-> cells[i]]]

Request(width, height, wallset, perfs, trayset, machines, cbs, networks, order) ==
    [width |-> width, height |-> height, gridResolution |-> 1,
     walls |-> wallset, perforations |-> perfs, trays |-> trayset,
     machines |-> machines, cables |-> cbs, networks |-> networks, order |-> order]

Plain(source, target) == Cable("", source, target, "", "", <<>>)

AllPairs(names) ==
    LET n == Len(names)
        pairs == SetList({p \in (1..n) \X (1..n) : p[1] < p[2]}, "asc")
    IN [k \in 1..Len(pairs) |-> Plain(names[pairs[k][1]], names[pairs[k][2]])]

Power == << [name |-> "N1", functions |-> <<"power", "signal">>] >>

Last == GridSize - 1

\* cells of the column x = 1, and the cell at the right end of the row y = 1
WallLine == {c \in GridCells(GridSize, GridSize) : c[1] = 1 \/ c = <<Last, 1>>}

\* three machines with a cable between every two, on a grid with a few walls,
\* perforations and trays; the second machine may sit on a wall or off the grid
Layouts ==
    {Request(GridSize, GridSize, w, pt[1], pt[2],
             Machines(<<"A", "B", "C">>, <<<<0, 0>>, b, c>>),
             AllPairs(<<"A", "B", "C">>), <<>>, o) :
        w \in {x \in SUBSET WallLine : Cardinality(x) <= MaxWalls},
        pt \in {<<{}, {}>>, <<{<<1, 1>>}, {}>>, <<{}, {<<1, 0>>, <<1, 1>>}>>},
        b \in GridCells(GridSize, GridSize) \cup {<<GridSize, 0>>},
        c \in {<<Last, Last>>, <<0, Last>>, <<1, 1>>},
        o \in Orders}

\* a full wall column x = 1, with no or one perforation, two machines on each
\* side; either side holds the first-listed machine
Islands ==
    {Request(GridSize, GridSize, {<<1, y>> : y \in 0..Last}, p, {},
             IF left_first
             THEN Machines(<<"A", "B", "C", "D">>, <<<<0, 0>>, <<0, b>>, <<Last, 0>>, <<Last, d>>>>)
             ELSE Machines(<<"C", "A", "D", "B">>, <<<<Last, 0>>, <<0, 0>>, <<Last, d>>, <<0, b>>>>),
             cbs, Power, o) :
        p \in {{}} \cup {{<<1, y>>} : y \in 0..Last},
        b \in 1..Last, d \in 1..Last, left_first \in BOOLEAN,
        cbs \in {<<Cable("ab", "A", "B", "power", "n", <<>>),
                   Cable("cd", "C", "D", "power", "n", <<>>)>>,
                 <<Cable("ab", "A", "B", "power", "n", <<>>),
                   Cable("ac", "A", "C", "signal", "", <<>>)>>},
        o \in Orders}

Lengths == {<<>>, <<"0">>, <<"0", ",", "2", "m">>, <<" ", "3", " ", "M">>, <<"x">>}

\* declared lengths, a machine named CUS, a cable that names no machine, and a
\* first-listed machine that may sit on a wall
Declared ==
    {Request(GridSize, GridSize, w, {}, {},
             Machines(<<"A", "CUS", "C">>, <<<<1, 1>>, b, c>>),
             <<Cable("k1", "CUS", "C", "power", "n", l1),
               Cable("k2", "CUS", "CUS", "", "", l2),
               Cable("", "C", "A", "other", "m", l3),
               Cable("k4", "A", "Z", "power", "n", <<"0">>),
               Cable("", "Y", "C", "", "", <<>>)>>,
             Power, o) :
        w \in {{}, {<<1, 1>>}},
        b \in {<<0, 0>>, <<0, 1>>}, c \in {<<Last, 1>>, <<Last, Last>>},
        l1 \in Lengths, l2 \in {<<>>, <<"0">>, <<"0", ",", "2", "m">>},
        l3 \in {<<>>, <<"0", ",", "2", "m">>},
        o \in Orders}

\* one cable between two machines that the tree joins through the third
Detours ==
    {Request(GridSize, GridSize, {}, {}, {},
             Machines(<<"A", "B", "C">>, <<<<0, 0>>, <<0, Last>>, c>>),
             <<Cable("k", "B", "C", "power", "", l)>>, nets, o) :
        c \in {<<1, 1>>, <<Last, 1>>},
        l \in Lengths, nets \in {<<>>, Power},
        o \in Orders}

\* no cable at all: the candidate groups are the combinations of the terminals
Uncabled ==
    {Request(GridSize, GridSize, {}, {}, {},
             Machines(<<"A", "B", "C">>, <<<<0, 0>>, b, c>>), <<>>, <<>>, o) :
        b \in GridCells(GridSize, GridSize),
        c \in {<<Last, Last>>, <<0, Last>>, <<1, 1>>},
        o \in Orders}

\* three machines next to or on a tray, every cable in the network N1
Trayed ==
    {Request(GridSize, GridSize, {}, {}, t,
             Machines(<<"A", "B", "C">>, <<<<0, 0>>, b, <<1, 1>>>>),
             <<Cable("ab", "A", "B", "power", "n", <<>>),
               Cable("ac", "A", "C", "power", "", <<>>),
               Cable("bc", "B", "C", "signal", "", <<>>)>>,
             Power, o) :
        t \in {{}, {<<1, 0>>, <<1, 1>>}},
        b \in {<<1, 0>>, <<0, Last>>},
        o \in Orders}

\* one wall in a corner of a 5x5 grid, which puts cells at every distance from
\* 1 to 8 of a wall, with or without two tray cells
Graded ==
    {Request(5, 5, {<<0, 0>>}, {}, t,
             Machines(<<"A", "B", "C">>, <<<<1, 0>>, <<4, 4>>, c>>),
             AllPairs(<<"A", "B", "C">>), <<>>, o) :
        t \in {{}, {<<2, 2>>, <<2, 3>>}},
        c \in {<<0, 4>>, <<3, 1>>},
        o \in Orders}

\* four machines spread over a 6x6 grid, with a cable between every two: the
\* candidates of one iteration differ in improvement
Spread ==
    {Request(6, 6, {}, {}, {},
             Machines(<<"A", "B", "C", "D">>, <<<<2, 5>>, m[1], m[2], m[3]>>),
             AllPairs(<<"A", "B", "C", "D">>), <<>>, o) :
        m \in {<<<<0, 3>>, <<2, 0>>, <<3, 4>>>>, <<<<4, 0>>, <<0, 2>>, <<5, 3>>>>},
        o \in Orders}

\* a 2x2 block of tray cells in the corner of a 4x4 grid, machines on and
\* around the block, with a cable between every two
Ringed ==
    {Request(4, 4, {}, {}, {<<0, 0>>, <<1, 0>>, <<0, 1>>, <<1, 1>>},
             Machines(<<"A", "B", "C">>, <<<<1, 3>>, <<0, 0>>, c>>),
             AllPairs(<<"A", "B", "C">>), <<>>, o) :
        c \in {<<2, 1>>, <<3, 1>>},
        o \in Orders}

\* boundary case "perforation unlocks path": 5x5, a full wall row y = 2 with
\* the perforation (2, 2), machines at (2, 0) and (2, 4)
PerforationScenario(o) ==
    Request(5, 5, {<<x, 2>> : x \in 0..4}, {<<2, 2>>}, {},
            Machines(<<"A", "B">>, <<<<2, 0>>, <<2, 4>>>>),
            <<Cable("c1", "A", "B", "power", "", <<>>)>>, Power, o)

\* boundary case "three-terminal Steiner win": 20x20 without walls or trays,
\* machines at (0, 0), (10, 0) and (5, 10), three cables forming a triangle
TriangleScenario(o) ==
    Request(20, 20, {}, {}, {},
            Machines(<<"A", "B", "C">>, <<<<0, 0>>, <<10, 0>>, <<5, 10>>>>),
            <<Plain("A", "B"), Plain("B", "C"), Plain("C", "A")>>, <<>>, o)

\* the boundary cases, and requests on a 4x4 grid that adopt a 4-terminal
\* component, or two components
Scenarios ==
    {PerforationScenario(o) : o \in Orders}
    \cup {TriangleScenario(o) : o \in Orders}
    \cup {Request(4, 4, {}, {}, {},
                  Machines(<<"A", "B", "C", "D">>, <<<<1, 2>>, <<3, 3>>, <<0, 0>>, <<3, 0>>>>),
                  AllPairs(<<"A", "B", "C", "D">>), <<>>, o) : o \in Orders}
    \cup {Request(4, 4, {}, {}, {},
                  Machines(<<"A", "B", "C", "D", "E">>,
                           <<<<1, 2>>, <<2, 1>>, <<3, 3>>, <<0, 0>>, <<0, 3>>>>),
                  AllPairs(<<"A", "B", "C", "D", "E">>), <<>>, o) : o \in Orders}
    \cup {Request(4, 4, {}, {}, {},
                  Machines(<<"A", "B", "C", "D">>, <<<<0, 2>>, <<2, 3>>, <<2, 0>>, <<3, 1>>>>),
                  <<>>, <<>>, o) : o \in Orders}

Requests ==
    Layouts \cup Islands \cup Declared \cup Detours \cup Uncabled \cup Trayed
        \cup Graded \cup Spread \cup Ringed \cup Scenarios

(***************************************************************************)
(* The request handler, step by step                                       *)
(***************************************************************************)
NoCandidate == [pair_routes |-> <<>>, found |-> FALSE, improvement |-> 0,
                comp |-> NoComponent, new_mst |-> <<>>, comps |-> <<>>]

Init ==
    /\ config \in Requests
    /\ pc = "init"
    /\ cables = <<>>
    /\ walls = {}
    /\ dist_wall = <<>>
    /\ dist_tray = <<>>
    /\ graph_cache = <<>>
    /\ terminals = <<>>
    /\ mst_edges = <<>>
    /\ pair_routes = <<>>
    /\ init_length = 0
    /\ current_length = 0
    /\ used_steiner_points = {}
    /\ pass_id = 0
    /\ improved_any = FALSE
    /\ passes_used = 0
    /\ total_comps_used = 0
    /\ candidate = NoCandidate
    /\ response = NoResponse

\* validity filter, walls minus perforations, distance maps, get_graph(1.0),
\* terminals
Start ==
    /\ pc = "init"
    /\ LET w == PassableWalls(config)
           dw == bfs_distance_map(config.width, config.height, w)
           dt == bfs_distance_map(config.width, config.height, config.trays)
       IN /\ cables' = ValidCables(config.cables, config.machines)
          /\ walls' = w
          /\ dist_wall' = dw
          /\ dist_tray' = dt
          /\ graph_cache' = get_graph(graph_cache, FullRed, config, w, dw, dt)
          /\ terminals' = Terminals(config)
    /\ pc' = "graph_built"
    /\ UNCHANGED <<config, mst_edges, pair_routes, init_length, current_length,
                   used_steiner_points, pass_id, improved_any, passes_used,
                   total_comps_used, candidate, response>>

\* PASS 0; a KeyError of the Dijkstra sweep ends the request with the 500
BuildInitialMST ==
    /\ pc = "graph_built"
    /\ LET built == build_mst_lazy(terminals, graph_cache[FullRed])
           length == mst_total_length(built.mst_edges, built.pair_routes)
       IN IF built.crashed
          THEN /\ pc' = "error"
               /\ response' = ErrorResponse
               /\ UNCHANGED <<mst_edges, pair_routes, init_length, current_length,
                              pass_id>>
          ELSE /\ pc' = "iterate"
               /\ mst_edges' = built.mst_edges
               /\ pair_routes' = built.pair_routes
               /\ init_length' = length
               /\ current_length' = length
               /\ pass_id' = 1
               /\ UNCHANGED response
    /\ UNCHANGED <<config, cables, walls, dist_wall, dist_tray, graph_cache, terminals,
                   used_steiner_points, improved_any, passes_used, total_comps_used,
                   candidate>>

\* one iteration of the inner loop up to the choice of the best candidate
Iterate ==
    /\ pc = "iterate"
    /\ IF LookupFails(cables, config.machines)
       THEN /\ pc' = "error"
            /\ response' = ErrorResponse
            /\ UNCHANGED <<pair_routes, candidate>>
       ELSE /\ candidate' = Iteration(terminals, mst_edges, pair_routes, current_length,
                                      graph_cache[FullRed], walls, config.trays, cables,
                                      config.machines, config.order)
            /\ pair_routes' = candidate'.pair_routes
            /\ pc' = "select"
            /\ UNCHANGED response
    /\ UNCHANGED <<config, cables, walls, dist_wall, dist_tray, graph_cache, terminals,
                   mst_edges, init_length, current_length, used_steiner_points,
                   pass_id, improved_any, passes_used, total_comps_used>>

\* variant: an adoption ends the pass, the next iteration opens the next pass
Adopt_ending_pass ==
    /\ pc = "select"
    /\ candidate.found /\ candidate.improvement > 0
    /\ mst_edges' = candidate.new_mst
    /\ current_length' = current_length - candidate.improvement
    /\ used_steiner_points' = used_steiner_points \cup Range(candidate.comp.steiner_points)
    /\ terminals' = terminals \o SelectSeq(candidate.comp.steiner_points,
                                          LAMBDA sp : sp \notin Range(terminals))
    /\ total_comps_used' = total_comps_used + 1
    /\ improved_any' = FALSE
    /\ passes_used' = pass_id
    /\ pass_id' = IF pass_id < max_passes THEN pass_id + 1 ELSE pass_id
    /\ pc' = "iterate"
    /\ UNCHANGED <<config, cables, walls, dist_wall, dist_tray, graph_cache,
                   pair_routes, init_length, candidate, response>>

Adopt ==
    /\ pc = "select"
    /\ candidate.found /\ candidate.improvement > 0
    /\ mst_edges' = candidate.new_mst
    /\ current_length' = current_length - candidate.improvement
    /\ used_steiner_points' = used_steiner_points \cup Range(candidate.comp.steiner_points)
    /\ terminals' = terminals \o SelectSeq(candidate.comp.steiner_points,
                                          LAMBDA sp : sp \notin Range(terminals))
    /\ total_comps_used' = total_comps_used + 1
    /\ improved_any' = TRUE
    /\ pc' = "iterate"
    /\ UNCHANGED <<config, cables, walls, dist_wall, dist_tray, graph_cache,
                   pair_routes, init_length, pass_id, passes_used, candidate, response>>

\* variant: the next pass starts whether or not the pass adopted anything
NextPass_after_any_pass ==
    /\ pc = "select"
    /\ ~(candidate.found /\ candidate.improvement > 0)
    /\ pass_id < max_passes
    /\ passes_used' = IF improved_any THEN pass_id ELSE passes_used
    /\ pass_id' = pass_id + 1
    /\ improved_any' = FALSE
    /\ pc' = "iterate"
    /\ UNCHANGED <<config, cables, walls, dist_wall, dist_tray, graph_cache, terminals,
                   mst_edges, pair_routes, init_length, current_length,
                   used_steiner_points, total_comps_used, candidate, response>>

\* the inner loop broke after at least one adoption: the next pass starts
NextPass ==
    /\ pc = "select"
    /\ ~(candidate.found /\ candidate.improvement > 0)
    /\ improved_any /\ pass_id < max_passes
    /\ passes_used' = pass_id
    /\ pass_id' = pass_id + 1
    /\ improved_any' = FALSE
    /\ pc' = "iterate"
    /\ UNCHANGED <<config, cables, walls, dist_wall, dist_tray, graph_cache, terminals,
                   mst_edges, pair_routes, init_length, current_length,
                   used_steiner_points, total_comps_used, candidate, response>>

\* the outer loop ends: a pass without adoption, or the last pass
Converge ==
    /\ pc = "select"
    /\ ~(candidate.found /\ candidate.improvement > 0)
    /\ ~improved_any \/ pass_id = max_passes
    /\ passes_used' = IF improved_any THEN pass_id ELSE passes_used
    /\ pc' = "converged"
    /\ UNCHANGED <<config, cables, walls, dist_wall, dist_tray, graph_cache, terminals,
                   mst_edges, pair_routes, init_length, current_length,
                   used_steiner_points, pass_id, improved_any, total_comps_used,
                   candidate, response>>

\* sections, final routes, length check; a ZeroDivisionError gives the 500
EmitResponse ==
    /\ pc = "converged"
    /\ response' = BuildResponse(config, cables, terminals, mst_edges, pair_routes,
                                 used_steiner_points, init_length, current_length,
                                 total_comps_used, passes_used)
    /\ pc' = IF response'.status = "ok" THEN "done" ELSE "error"
    /\ UNCHANGED <<config, cables, walls, dist_wall, dist_tray, graph_cache, terminals,
                   mst_edges, pair_routes, init_length, current_length,
                   used_steiner_points, pass_id, improved_any, passes_used,
                   total_comps_used, candidate>>

Next == Start \/ BuildInitialMST \/ Iterate \/ Adopt \/ NextPass \/ Converge
            \/ EmitResponse

Spec == Init /\ [][Next]_vars

(***************************************************************************)
(* Vocabulary of the properties                                            *)
(***************************************************************************)
\* a cell is blocked iff it is listed as a wall and not as a perforation
Blocked(cfg, c) == c \in cfg.walls /\ c \notin cfg.perforations

Passable(cfg, c) == InGrid(c, cfg.width, cfg.height) /\ ~Blocked(cfg, c)

AllPassable(cfg, path) == \A i \in 1..Len(path) : Passable(cfg, path[i])

Returned == pc = "done" /\ response.status = "ok"

Failed == pc = "error" /\ response.status = "error"

\* the steps (unordered pairs of consecutive cells) of a path
Steps(path) == {{path[i], path[i + 1]} : i \in 1..(Len(path) - 1)}

\* the steps of the pair-routes of the edges of a tree
TreeSteps(edges, pr) == UNION {Steps(EdgePath(edges[e], pr)) : e \in 1..Len(edges)}

\* the route returned for a cable
RouteOf(cb) == response.cableRoutes[CableId(cb)]

\* C1: in every response, every cell of every cableRoutes entry and of every
\* section's point list is inside the grid and not blocked; so is every cell
\* of the pair-route of every edge of the tree, after the initial MST and
\* after every adoption.
C1_RoutesAvoidBlockedCells ==
    /\ \A e \in 1..Len(mst_edges) : AllPassable(config, EdgePath(mst_edges[e], pair_routes))
    /\ Returned =>
           /\ \A cid \in DOMAIN response.cableRoutes :
                  AllPassable(config, response.cableRoutes[cid])
           /\ \A s \in 1..Len(response.sections) :
                  AllPassable(config, response.sections[s].points)

\* a response after an adoption, on a grid with a blocked cell, with a route
\* and a section that run next to a blocked cell
C1_Witness ==
    /\ Returned
    /\ total_comps_used >= 1
    /\ \E w \in config.walls, cid \in DOMAIN response.cableRoutes,
          s \in 1..Len(response.sections) :
           /\ Blocked(config, w)
           /\ \E i \in 1..Len(response.cableRoutes[cid]) :
                  Manhattan(response.cableRoutes[cid][i], w) = 1
           /\ \E i \in 1..Len(response.sections[s].points) :
                  Manhattan(response.sections[s].points[i], w) = 1

\* C2: every non-empty cableRoutes entry starts at the cable's source machine
\* cell, ends at its target machine cell, moves between 4-neighbours, visits
\* no cell twice, and every step of it is a step of the pair-route of an edge
\* of the final MST.
C2_RouteIsEndToEnd ==
    Returned =>
        \A k \in 1..Len(cables) :
            LET route == RouteOf(cables[k])
            IN route # <<>> =>
                   /\ route[1] = MachineCell(config.machines, cables[k].source)
                   /\ route[Len(route)] = MachineCell(config.machines, cables[k].target)
                   /\ \A i \in 1..(Len(route) - 1) : Manhattan(route[i], route[i + 1]) = 1
                   /\ \A i, j \in 1..Len(route) : route[i] = route[j] => i = j
                   /\ Steps(route) \subseteq TreeSteps(mst_edges, pair_routes)

\* a response after an adoption with a route of three cells or more between
\* two different machine cells
C2_Witness ==
    /\ Returned
    /\ total_comps_used >= 1
    /\ \E k \in 1..Len(cables) :
           /\ Len(RouteOf(cables[k])) >= 3
           /\ MachineCell(config.machines, cables[k].source)
                  # MachineCell(config.machines, cables[k].target)

(***************************************************************************)
(* Regions of passable cells                                               *)
(***************************************************************************)
RECURSIVE Grow(_, _)
Grow(cfg, S) ==
    LET T == S \cup {n \in GridCells(cfg.width, cfg.height) :
                        Passable(cfg, n) /\ \E c \in S : Manhattan(c, n) = 1}
    IN IF T = S THEN S ELSE Grow(cfg, T)

\* the passable cells reachable from c; empty when c itself is not passable
RegionOf(cfg, c) == IF Passable(cfg, c) THEN Grow(cfg, {c}) ELSE {}

Reachable(cfg, a, b) == b \in RegionOf(cfg, a)

MachineCells(cfg) == {cfg.machines[i].cell : i \in 1..Len(cfg.machines)}

SourceCell(cb) == MachineCell(config.machines, cb.source)

TargetCell(cb) == MachineCell(config.machines, cb.target)

\* the machines lie in two mutually unreachable regions and every cable has
\* both endpoints in one region
TwoIslands ==
    /\ \A m \in MachineCells(config) : Passable(config, m)
    /\ Cardinality({RegionOf(config, m) : m \in MachineCells(config)}) = 2
    /\ \A k \in 1..Len(cables) : Reachable(config, SourceCell(cables[k]), TargetCell(cables[k]))

\* a path stays inside one region
InOneRegion(path) ==
    \A i, j \in 1..Len(path) : Reachable(config, path[i], path[j])

\* C3: with the machines in two mutually unreachable regions and every cable
\* inside one region, the request does not fail, every cable gets a non-empty
\* route inside its own region, and no MST edge, route or section contains
\* cells of both regions.
C3_EveryIslandRouted ==
    (TwoIslands /\ pc \in {"done", "error"}) =>
        /\ Returned
        /\ \A k \in 1..Len(cables) :
               /\ RouteOf(cables[k]) # <<>>
               /\ Range(RouteOf(cables[k])) \subseteq RegionOf(config, SourceCell(cables[k]))
        /\ \A e \in 1..Len(mst_edges) : InOneRegion(EdgePath(mst_edges[e], pair_routes))
        /\ \A s \in 1..Len(response.sections) : InOneRegion(response.sections[s].points)

\* C4: when the target cell of a cable cannot be reached from its source
\* cell, the request succeeds, cableRoutes has no entry for that cable, and
\* every other cable has its route.
C4_UnreachableCableOmitted ==
    LET cut(cb) == ~Reachable(config, SourceCell(cb), TargetCell(cb))
    IN (pc \in {"done", "error"} /\ \E k \in 1..Len(cables) : cut(cables[k])) =>
           /\ Returned
           /\ \A k \in 1..Len(cables) :
                  IF cut(cables[k])
                  THEN CableId(cables[k]) \notin DOMAIN response.cableRoutes
                  ELSE /\ CableId(cables[k]) \in DOMAIN response.cableRoutes
                       /\ RouteOf(cables[k]) # <<>>

(***************************************************************************)
(* Declared lengths                                                        *)
(***************************************************************************)
\* the route of a cable inside the current tree
TreeRoute(cb) ==
    find_cable_route(SourceCell(cb), TargetCell(cb), mst_edges, pair_routes, config.order)

\* metric length of a route, in tenths of a metre
RouteLength(route) == Max2(0, Len(route) - 1) * config.gridResolution

\* a cable is listed in problematicCables
Listed(cb) ==
    \E i \in 1..Len(response.problematicCables) :
        /\ response.problematicCables[i].cableLabel = cb.cableLabel
        /\ response.problematicCables[i].source = cb.source
        /\ response.problematicCables[i].target = cb.target

\* redCable of the five retries, in twentieths: 0.55, 0.45, 0.35, 0.25, 0.15
RetryRedCables == <<11, 9, 7, 5, 3>>

Attempt(cb, a) ==
    dijkstra_path(SourceCell(cb), TargetCell(cb),
                  get_graph(graph_cache, RetryRedCables[a], config, walls,
                            dist_wall, dist_tray)[RetryRedCables[a]])

Fits(cb, a) ==
    /\ Attempt(cb, a).found
    /\ RouteLength(Attempt(cb, a).path) <= parse_length(cb.length).value

\* C5: a cable with a declared length L whose tree route is longer than L is
\* retried with redCable 0.55, 0.45, 0.35, 0.25, 0.15; if an attempt gives a
\* path of length <= L, the returned route is the path of the first such
\* attempt and the cable is not listed in problematicCables.
C5_RetryWithShrinkingRedCable ==
    Returned =>
        \A k \in 1..Len(cables) :
            LET cb == cables[k]
                fitting == {a \in 1..Len(RetryRedCables) : Fits(cb, a)}
            IN (/\ parse_length(cb.length).some
                /\ RouteLength(TreeRoute(cb)) > parse_length(cb.length).value
                /\ fitting # {}) =>
                   /\ RouteOf(cb) = Attempt(cb, SetMin(fitting)).path
                   /\ ~Listed(cb)

\* C6: a cable is listed in problematicCables only if it has a declared length
\* L and its returned route length R is greater than L, whatever the names of
\* its machines; every entry has excessLength = R - L > 0 and the tree route
\* is the route returned.
C6_ListedOnlyIfTooLong ==
    Returned =>
        /\ \A k \in 1..Len(cables) :
               Listed(cables[k]) =>
                   /\ parse_length(cables[k].length).some
                   /\ RouteLength(RouteOf(cables[k])) > parse_length(cables[k].length).value
                   /\ RouteOf(cables[k]) = TreeRoute(cables[k])
        /\ \A i \in 1..Len(response.problematicCables) :
               LET entry == response.problematicCables[i]
               IN /\ entry.excessLength = entry.routeLength - entry.specifiedLength
                  /\ entry.excessLength > 0

\* C7: a cable whose length parses to L >= 0 and whose route is longer than L
\* never makes the request fail: the response is successful and lists the
\* cable in problematicCables.
C7_UnmetCeilingNotFatal ==
    pc \in {"done", "error"} =>
        \A k \in 1..Len(cables) :
            (/\ parse_length(cables[k].length).some
             /\ parse_length(cables[k].length).value >= 0
             /\ RouteLength(TreeRoute(cables[k])) > parse_length(cables[k].length).value) =>
                Returned /\ Listed(cables[k])

(***************************************************************************)
(* Cables that name no machine                                             *)
(***************************************************************************)
Known(cfg, cb) ==
    /\ \E i \in 1..Len(cfg.machines) : cfg.machines[i].name = cb.source
    /\ \E i \in 1..Len(cfg.machines) : cfg.machines[i].name = cb.target

Unknown(cfg) == {i \in 1..Len(cfg.cables) : ~Known(cfg, cfg.cables[i])}

\* the request with the cables that name no machine removed
WithoutUnknown(cfg) ==
    [cfg EXCEPT !.cables = SelectSeq(cfg.cables, LAMBDA cb : Known(cfg, cb))]

\* C8: a cable whose source or target is not a key of machines is in no
\* cableRoutes entry, no section and no problematicCables entry, and the
\* response is the response to the same request without that cable.
C8_UnknownCableDropped ==
    (Unknown(config) # {} /\ pc \in {"done", "error"}) =>
        /\ response = optimize_cable_paths(WithoutUnknown(config))
        /\ Returned =>
               \A i \in Unknown(config) :
                   /\ CableId(config.cables[i]) \notin DOMAIN response.cableRoutes
                   /\ \A s \in 1..Len(response.sections) :
                          CableId(config.cables[i]) \notin response.sections[s].cables
                   /\ ~Listed(config.cables[i])

\* a response with routes to a request that holds cables naming no machine
C8_Witness ==
    /\ Returned
    /\ Cardinality(Unknown(config)) >= 2
    /\ \E cid \in DOMAIN response.cableRoutes : Len(response.cableRoutes[cid]) >= 2
    /\ response.problematicCables # <<>>

(***************************************************************************)
(* Perforations                                                            *)
(***************************************************************************)
Perforated(cfg) ==
    {c \in cfg.walls \cap cfg.perforations : InGrid(c, cfg.width, cfg.height)}

Graph == graph_cache[FullRed]

HasEdge(a, b) == \E i \in 1..Len(Graph[a]) : Graph[a][i][1] = b

\* p is the only passable cell of its row, or of its column, and a and b lie
\* on the two sides of that line
OnlyGateBetween(cfg, p, a, b) ==
    \/ /\ \A x \in 0..(cfg.width - 1) : x # p[1] => Blocked(cfg, <<x, p[2]>>)
       /\ (a[2] - p[2]) * (b[2] - p[2]) < 0
    \/ /\ \A y \in 0..(cfg.height - 1) : y # p[2] => Blocked(cfg, <<p[1], y>>)
       /\ (a[1] - p[1]) * (b[1] - p[1]) < 0

\* C9: a cell listed in both walls and perforations is a node of the weighted
\* graph with edges to and from its passable 4-neighbours and is not a seed of
\* the wall distance map; the route of a cable whose machines are separated
\* by a full wall line with one perforation passes through the perforation,
\* and in the 5x5 scenario that route has 4 steps.
C9_PerforationIsPassable ==
    /\ pc # "init" =>
           \A p \in Perforated(config) :
               /\ p \in DOMAIN Graph
               /\ p \notin walls
               /\ dist_wall[p] # 0
               /\ \A n \in GridCells(config.width, config.height) :
                      (Manhattan(p, n) = 1 /\ Passable(config, n)) =>
                          HasEdge(p, n) /\ HasEdge(n, p)
    /\ Returned =>
           \A k \in 1..Len(cables), p \in Perforated(config) :
               (/\ Passable(config, SourceCell(cables[k]))
                /\ Passable(config, TargetCell(cables[k]))
                /\ OnlyGateBetween(config, p, SourceCell(cables[k]), TargetCell(cables[k]))) =>
                   /\ p \in Range(RouteOf(cables[k]))
                   /\ config.width = 5 => Len(RouteOf(cables[k])) - 1 = 4

\* the response to the 5x5 scenario: the route passes through (2, 2)
C9_Witness ==
    /\ Returned
    /\ config.width = 5
    /\ Perforated(config) = {<<2, 2>>}
    /\ \E cid \in DOMAIN response.cableRoutes :
           <<2, 2>> \in Range(response.cableRoutes[cid])

(***************************************************************************)
(* Connectivity of the tree                                                *)
(***************************************************************************)
RECURSIVE Along(_, _)
Along(steps, S) ==
    LET T == S \cup UNION {st \in steps : st \cap S # {}}
    IN IF T = S THEN S ELSE Along(steps, T)

\* at least two distinct machine cells, all of them mutually reachable
MachinesConnectable ==
    /\ Cardinality(MachineCells(config)) >= 2
    /\ \A a \in MachineCells(config) : MachineCells(config) \subseteq RegionOf(config, a)

\* C10: with at least two distinct, mutually reachable machine cells, after
\* the initial MST and after every adoption the union of the pair-routes of
\* the MST edges contains every machine cell and connects each to each.
C10_TreeSpansMachines ==
    (pc \in {"iterate", "select", "converged", "done"} /\ MachinesConnectable) =>
        LET steps == TreeSteps(mst_edges, pair_routes)
            first == CHOOSE m \in MachineCells(config) : TRUE
        IN MachineCells(config) \subseteq Along(steps, {first})

\* the tree right after the second adoption of a request, spanning four
\* machines or more
C10_Witness ==
    /\ pc = "iterate"
    /\ total_comps_used >= 2
    /\ Cardinality(MachineCells(config)) >= 4
    /\ MachinesConnectable
    /\ MachineCells(config) \subseteq
           Along(TreeSteps(mst_edges, pair_routes), {config.machines[1].cell})

(***************************************************************************)
(* Adoptions                                                               *)
(***************************************************************************)
\* the sum of the pair-route costs over the edges of a tree
TreeLength(edges, pr) ==
    SumSeq([i \in 1..Len(edges) |-> pr[edges[i]].cost])

TreeBuilt == pc \in {"iterate", "select", "converged", "done"}

\* a step that adopts a component
AdoptStep == total_comps_used' = total_comps_used + 1

\* what every step of a request keeps
AdoptionsKept ==
    /\ AdoptStep =>
           /\ TreeLength(mst_edges', pair_routes') < TreeLength(mst_edges, pair_routes)
           /\ current_length' < current_length
    /\ (TreeBuilt /\ mst_edges' # mst_edges) => AdoptStep
    /\ used_steiner_points \subseteq used_steiner_points'
    /\ total_comps_used' >= total_comps_used

\* the tree length is the length the handler tracks
LengthTracked ==
    TreeBuilt =>
        /\ \A e \in 1..Len(mst_edges) : mst_edges[e] \in DOMAIN pair_routes
        /\ current_length = TreeLength(mst_edges, pair_routes)

LengthsReported ==
    Returned =>
        LET dbg == response.debug_info
        IN /\ dbg.final_length = current_length
           /\ dbg.initial_mst_length = init_length
           /\ dbg.final_length <= dbg.initial_mst_length
           /\ (dbg.final_length < dbg.initial_mst_length) <=> (dbg.num_components_used >= 1)

\* C11: every adoption strictly decreases the tree length (the sum of the
\* pair-route costs over the MST edges), which current_length tracks; the tree
\* changes only by an adoption and the set of adopted Steiner points only
\* grows; so final_length <= initial_mst_length in the response, strictly
\* exactly when num_components_used >= 1.
C11_AdoptionsOnlyShorten ==
    [][AdoptionsKept]_vars /\ []LengthTracked /\ []LengthsReported

\* the tree right after the second adoption of a request
C11_Witness ==
    /\ pc = "iterate"
    /\ total_comps_used >= 2
    /\ Cardinality(used_steiner_points) >= 2
    /\ current_length = TreeLength(mst_edges, pair_routes)
    /\ current_length < init_length

(***************************************************************************)
(* Route lengths                                                           *)
(***************************************************************************)
\* the length of a route in cells: the number of cells minus one
CellLength(route) == Len(route) - 1

\* C12: for every cable with an entry in cableRoutes, the route length in
\* cells (number of cells minus one) is at least the Manhattan distance
\* between its source and target machine cells.
C12_ManhattanFloor ==
    Returned =>
        \A k \in 1..Len(cables) :
            CableId(cables[k]) \in DOMAIN response.cableRoutes =>
                CellLength(RouteOf(cables[k]))
                    >= Manhattan(SourceCell(cables[k]), TargetCell(cables[k]))

(***************************************************************************)
(* Sections                                                                *)
(***************************************************************************)
\* the cells a route shares with the point list of a section
Shared(sec, route) == Range(sec.points) \cap Range(route)

\* C13: for every section of the response, network section or single-cable
\* fallback section, and every cable label of its cable set, the cable's
\* cableRoutes entry shares at least two cells with the section's point list.
C13_SectionCablesOverlap ==
    Returned =>
        \A s \in 1..Len(response.sections) :
            \A cid \in response.sections[s].cables :
                Cardinality(Shared(response.sections[s], response.cableRoutes[cid])) >= 2

\* the sections built from the sub-paths of the MST edges
NetworkSections ==
    convert_to_sections(mst_edges, cables, config.machines, config.networks,
                        pair_routes, config.order)

\* the cells of pts are consecutive cells of the route, in either direction
IsRunOf(pts, route) ==
    \E i \in 1..Len(route) :
        /\ i + Len(pts) - 1 <= Len(route)
        /\ SubSeq(route, i, i + Len(pts) - 1) \in {pts, Reverse(pts)}

\* C14: for every section built from an MST sub-path and every cable of its
\* cable set, the cable's end-to-end route contains every cell of the
\* section's point list, as one contiguous run of the route.
C14_SectionIsSharedSegment ==
    Returned =>
        \A s \in 1..Len(response.sections) :
            response.sections[s] \in Range(NetworkSections) =>
                \A cid \in response.sections[s].cables :
                    IsRunOf(response.sections[s].points, response.cableRoutes[cid])

\* the cable's function is the function of no network
Unmapped(cb) == NetworkLookup(config.networks, cb.cableFunction) = ""

\* the sections whose cable set holds the cable
SectionsOf(cb) ==
    {s \in 1..Len(response.sections) : CableId(cb) \in response.sections[s].cables}

C16_StrokeWidthFormula ==
    Returned =>
        \A s \in 1..Len(response.sections) :
            LET n == Cardinality(response.sections[s].cables)
            IN /\ response.sections[s].strokeWidth = 400 + Min2(75 * n, 1500)
               /\ n = 1 => response.sections[s].strokeWidth = 475
               /\ response.sections[s].strokeWidth <= 1900

(***************************************************************************)
(* Iteration order of the unordered collections                            *)
(***************************************************************************)
\* the same request with its sets iterated in the other order
Reordered(cfg) ==
    [cfg EXCEPT !.order = IF cfg.order = "asc" THEN "desc" ELSE "asc"]

\* C17: the output of a request does not depend on the order in which the
\* unordered collections are iterated (the node set given to the re-MST, the
\* terminal set of a network, the terminal set of a 4-terminal component):
\* the request with the other iteration order ends the same way, with the
\* same cableRoutes, sections, steinerPoints and debug_info.
C17_OrderIndependent ==
    pc \in {"done", "error"} => response = optimize_cable_paths(Reordered(config))

(***************************************************************************)
(* Edge weights.  A weight w is held in fortieths and a relaxation factor  *)
(* in twentieths: Weighs(w, n, d) says that w stands for n / d, and        *)
(* Factor(w, red, n, d) that w stands for (n / d) * r.                     *)
(***************************************************************************)
Weighs(w, n, d) == w * d = n * 40

Factor(w, red, n, d) == Weighs(w, n * red, d * 20)

\* the first matching row of the weight table for an edge into the cell c
TableRow(c, red, w) ==
    IF dist_tray[c] = 0 /\ red = 20 THEN w = 0
    ELSE IF walls = {} THEN Weighs(w, 10, 1)
    ELSE IF dist_wall[c] = 0 THEN Weighs(w, 100, 1)
    ELSE IF dist_wall[c] = 1 THEN Weighs(w, 35, 10)
    ELSE IF dist_wall[c] = 2 THEN Factor(w, red, 55, 10)
    ELSE IF dist_wall[c] = 3
    THEN IF red # 20 THEN Factor(w, red, 70, 20) ELSE Factor(w, red, 70, 10)
    ELSE Factor(w, red, 10, 1)

\* the relaxation factors the handler builds graphs for
RedCables == {FullRed} \cup {RetryRedCables[a] : a \in 1..Len(RetryRedCables)}

\* the weighted graph of the request for the factor red
GraphFor(red) ==
    get_graph(graph_cache, red, config, walls, dist_wall, dist_tray)[red]

GraphBuilt == FullRed \in DOMAIN graph_cache

EdgesFollowTable(graph, red) ==
    \A p \in DOMAIN graph :
        \A k \in 1..Len(graph[p]) :
            /\ graph[p][k][1] \in GridCells(config.width, config.height) \ walls
            /\ TableRow(graph[p][k][1], red, graph[p][k][2])

\* C18: in the weighted graph built for the relaxation factor r, every edge
\* entering a passable cell c weighs what the first matching row of the table
\* gives for c, whatever cell it leaves: 0 if distTray[c] = 0 and r = 1; else
\* 10 if no wall exists; else 100 for distWall[c] = 0; 3.5 for 1; 5.5 r for 2;
\* 7.0 r' for 3, with r' = r / 2 unless r = 1; 10 r for distWall[c] >= 4.
C18_EdgeWeightTable ==
    GraphBuilt => \A red \in RedCables : EdgesFollowTable(GraphFor(red), red)

\* a cell that some edge of the graph enters
Entered(graph, c) ==
    \E p \in DOMAIN graph : \E k \in 1..Len(graph[p]) : graph[p][k][1] = c

\* a graph with walls whose edges enter a tray cell and cells at distance 1,
\* 2, 3 and more than 3 of a wall, next to cells that weigh otherwise
C18_Witness ==
    /\ GraphBuilt
    /\ walls # {}
    /\ \E c \in DOMAIN Graph : dist_tray[c] = 0 /\ Entered(Graph, c)
    /\ \A d \in 1..4 :
          \E c \in DOMAIN Graph :
              /\ dist_wall[c] = d
              /\ dist_tray[c] # 0
              /\ Entered(GraphFor(11), c)
              /\ \E p \in DOMAIN Graph :
                    /\ \E k \in 1..Len(Graph[p]) : Graph[p][k][1] = c
                    /\ dist_tray[p] # 0
                    /\ dist_wall[p] # d

(***************************************************************************)
(* The three-terminal boundary case.                                       *)
(***************************************************************************)
\* a length of n cell-weights: n steps into cells of the base weight
CellWeights(n) == Fx(n * base_weight, 1)

TriangleAnswered ==
    /\ pc = "done"
    /\ config \in {TriangleScenario(o) : o \in Orders}

\* C19: on the 20x20 grid without walls or trays, with machines at (0,0),
\* (10,0) and (5,10) and a triangle of three cables, the initial MST length is
\* 30 cell-weights, the Steiner point (5,0) is adopted, the final tree length
\* is 20 cell-weights and num_components_used >= 1.
C19_TriangleSteinerWin ==
    TriangleAnswered =>
        /\ response.debug_info.initial_mst_length = CellWeights(30)
        /\ <<5, 0>> \in used_steiner_points
        /\ response.debug_info.final_length = CellWeights(20)
        /\ response.debug_info.num_components_used >= 1

(***************************************************************************)
(* The route table.                                                        *)
(***************************************************************************)
\* the weight of the edge from the cell a to the cell b
EdgeWeight(graph, a, b) ==
    LET k == CHOOSE i \in 1..Len(graph[a]) : graph[a][i][1] = b
    IN graph[a][k][2]

\* every step of the path is an edge of the graph
Walkable(graph, path) ==
    /\ \A i \in 1..Len(path) : path[i] \in DOMAIN graph
    /\ \A i \in 1..(Len(path) - 1) :
          \E k \in 1..Len(graph[path[i]]) : graph[path[i]][k][1] = path[i + 1]

\* the sum of the edge weights along the path, walked from its first cell
WalkCost(graph, path) ==
    SumSeq([i \in 1..(Len(path) - 1) |-> EdgeWeight(graph, path[i], path[i + 1])])

RouteEntryRight(key) ==
    LET entry == pair_routes[key]
        back == <<key[2], key[1]>>
    IN /\ entry.path # <<>>
       /\ Head(entry.path) = key[1]
       /\ entry.path[Len(entry.path)] = key[2]
       /\ Walkable(Graph, entry.path)
       /\ entry.cost = WalkCost(Graph, entry.path)
       /\ back \in DOMAIN pair_routes
       /\ pair_routes[back].path = Reverse(entry.path)
       /\ pair_routes[back].cost = entry.cost
       /\ pair_routes[back].cost = WalkCost(Graph, pair_routes[back].path)

\* C20: every entry of pair_routes, at every point of a request, has for its
\* key (u, v) a path from u to v over adjacent passable cells and a cost equal
\* to the sum of the edge weights along that path; the entry of (v, u) exists
\* with the reversed path and the same cost, which is again the sum of the
\* edge weights along the reversed path walked from v to u.
C20_RouteTableMirrored ==
    \A key \in DOMAIN pair_routes : RouteEntryRight(key)

(***************************************************************************)
(* Shortest paths.                                                         *)
(***************************************************************************)
\* the cells that a walk of graph edges reaches from the cells seen
RECURSIVE ReachFrom(_, _)
ReachFrom(graph, seen) ==
    LET step == seen \cup UNION {{graph[p][k][1] : k \in 1..Len(graph[p])} : p \in seen}
    IN IF step = seen THEN seen ELSE ReachFrom(graph, step)

\* the least total weight of a walk from the start to every node, by rounds
\* of relaxing every edge until no cost changes; d holds the costs so far, and
\* the edges into a cell leave the cells around it
RECURSIVE LeastCosts(_, _)
LeastCosts(graph, d) ==
    LET from(c) == {p \in Range(Around(c)) \cap DOMAIN graph : d[p] # Inf}
        into(c) ==
            {d[pk[1]] + graph[pk[1]][pk[2]][2] :
                pk \in {qk \in from(c) \X (1..4) :
                            /\ qk[2] <= Len(graph[qk[1]])
                            /\ graph[qk[1]][qk[2]][1] = c}}
        next == [c \in DOMAIN graph |-> SetMin({d[c]} \cup into(c))]
    IN IF next = d THEN d ELSE LeastCosts(graph, next)

LeastCost(graph, start, end) ==
    LeastCosts(graph, [c \in DOMAIN graph |-> IF c = start THEN 0 ELSE Inf])[end]

WalkExists(graph, start, end) ==
    /\ start \in DOMAIN graph
    /\ end \in ReachFrom(graph, {start})

DijkstraRight(start, end, graph) ==
    LET right(res) ==
            /\ res.found <=> WalkExists(graph, start, end)
            /\ ~res.found => res = None
            /\ res.found =>
                  /\ Head(res.path) = start
                  /\ res.path[Len(res.path)] = end
                  /\ Walkable(graph, res.path)
                  /\ res.cost = WalkCost(graph, res.path)
                  /\ res.cost = LeastCost(graph, start, end)
    IN right(dijkstra_path(start, end, graph))

\* the end cells tried: every cell of a small grid, and the machine cells,
\* which lie on or off the grid and may be walls
EndCells ==
    MachineCells(config) \cup (IF config.width * config.height <= 25
                       THEN GridCells(config.width, config.height) ELSE {})

\* C21: dijkstra_path(start, end, graph) returns none exactly when start or
\* end is no node of the graph or end is not reachable from start; otherwise
\* it returns a walk of graph edges from start to end with the sum of their
\* weights as cost, and no walk from start to end weighs less, zero-weight
\* edges into tray cells included.
C21_DijkstraShortest ==
    pc = "graph_built" =>
        \A start \in MachineCells(config) : \A end \in EndCells :
            DijkstraRight(start, end, Graph)

\* a least-cost path that enters a tray cell at weight 0 and is not the only
\* walk, and an end that no walk reaches
C21_Witness ==
    /\ pc = "graph_built"
    /\ \E start \in MachineCells(config) : \E end \in EndCells :
          /\ dijkstra_path(start, end, Graph).found
          /\ Len(dijkstra_path(start, end, Graph).path) >= 3
          /\ \E i \in 2..Len(dijkstra_path(start, end, Graph).path) :
                dist_tray[dijkstra_path(start, end, Graph).path[i]] = 0
          /\ dijkstra_path(start, end, Graph).cost
                < Fx(base_weight, 1) * Manhattan(start, end)
    /\ \E start \in MachineCells(config) \cap DOMAIN Graph :
          \E end \in EndCells \cap DOMAIN Graph :
              ~dijkstra_path(start, end, Graph).found

(***************************************************************************)
(* The initial tree.                                                       *)
(***************************************************************************)
\* the distinct terminals that a walk reaches from the first one
ReachedTerminals(terms, graph) ==
    {terms[1]} \cup {t \in Range(terms) : WalkExists(graph, terms[1], t)}

\* the nodes joined to the nodes seen by edges of the set, whatever their way
RECURSIVE Joined(_, _)
Joined(edges, seen) ==
    LET step == seen \cup {e[2] : e \in {f \in edges : f[1] \in seen}}
                     \cup {e[1] : e \in {f \in edges : f[2] \in seen}}
    IN IF step = seen THEN seen ELSE Joined(edges, step)

\* the edges form a spanning tree of the nodes: one edge less than nodes, and
\* every node joined to every other
SpanningTree(edges, nodes) ==
    /\ Cardinality(edges) = Cardinality(nodes) - 1
    /\ \A e \in edges : e[1] \in nodes /\ e[2] \in nodes /\ e[1] # e[2]
    /\ \A n \in nodes : Joined(edges, {n}) = nodes

\* the cost of a set of edges when the edge (u, v) weighs the least cost of a
\* walk from u to v
ShortestPathCost(edges, graph) ==
    LET RECURSIVE sum(_)
        sum(S) == IF S = {} THEN 0
                  ELSE LET e == CHOOSE f \in S : TRUE
                       IN LeastCost(graph, e[1], e[2]) + sum(S \ {e})
    IN sum(edges)

\* every spanning tree of the nodes, each edge in either direction
SpanningTrees(nodes) ==
    {edges \in SUBSET {e \in nodes \X nodes : e[1] # e[2]} :
        SpanningTree(edges, nodes)}

LazyTreeRight(terms, graph) ==
    LET right(built) ==
            /\ ~built.crashed
            /\ Cardinality(Range(built.mst_edges)) = Len(built.mst_edges)
            /\ SpanningTree(Range(built.mst_edges), ReachedTerminals(terms, graph))
            /\ \A e \in Range(built.mst_edges) :
                  /\ e \in DOMAIN built.pair_routes
                  /\ built.pair_routes[e].cost = LeastCost(graph, e[1], e[2])
            /\ \A other \in SpanningTrees(ReachedTerminals(terms, graph)) :
                  ShortestPathCost(Range(built.mst_edges), graph)
                      <= ShortestPathCost(other, graph)
    IN right(build_mst_lazy(terms, graph))

\* C22: build_mst_lazy ends on every terminal list, lists that name a cell
\* twice or hold terminals out of reach of the first one included, and returns
\* a spanning tree of the distinct terminals within reach of the first: k - 1
\* edges for k terminals, no cycle, a total cost no larger than that of any
\* other spanning tree when a pair weighs its shortest-path cost, and the
\* pair-route of every returned edge stored.
C22_LazyTreeIsMinimal ==
    pc = "graph_built" /\ terminals # <<>> => LazyTreeRight(terminals, Graph)

(***************************************************************************)
(* The choice of an iteration.                                             *)
(***************************************************************************)
\* the improvement of the tree length that simulating the component on the
\* current tree gives
SimulatedImprovement(comp) ==
    LET gained(upd) == current_length - mst_total_length(upd.new_mst, upd.pair_routes)
    IN gained(update_mst_with_components(mst_edges, comp, pair_routes, Graph,
                                         config.order))

SimulatedTree(comp) ==
    update_mst_with_components(mst_edges, comp, pair_routes, Graph, config.order).new_mst

\* the candidate has a positive improvement that no other candidate of the
\* iteration exceeds
BestOfIteration(comp) ==
    /\ SimulatedImprovement(comp) > 0
    /\ \A j \in 1..Len(candidate.comps) :
          SimulatedImprovement(candidate.comps[j]) <= SimulatedImprovement(comp)

\* the step commits the component and nothing else
Commits(comp) ==
    /\ mst_edges' = SimulatedTree(comp)
    /\ current_length' = current_length - SimulatedImprovement(comp)
    /\ used_steiner_points' = used_steiner_points \cup Range(comp.steiner_points)
    /\ Range(terminals') = Range(terminals) \cup Range(comp.steiner_points)

TreeKept == UNCHANGED <<mst_edges, current_length, terminals, used_steiner_points>>

\* a step of the local search that changes the tree is the adoption of one
\* best candidate
OneBestAdopted ==
    (pc \in {"iterate", "select"} /\ ~TreeKept) =>
        /\ pc = "select" /\ pc' = "iterate" /\ pass_id' = pass_id
        /\ total_comps_used' = total_comps_used + 1
        /\ \E i \in 1..Len(candidate.comps) :
              BestOfIteration(candidate.comps[i]) /\ Commits(candidate.comps[i])

\* without a candidate of positive improvement the tree is kept and the pass
\* ends
NoGainEndsPass ==
    (/\ pc = "select"
     /\ \A j \in 1..Len(candidate.comps) :
           SimulatedImprovement(candidate.comps[j]) <= 0) =>
        /\ TreeKept
        /\ total_comps_used' = total_comps_used
        /\ pc' = "converged" \/ pass_id' = pass_id + 1

\* C23: an iteration of the local search adopts at most one candidate, one
\* whose simulated improvement of the tree length is strictly positive and at
\* least that of every other candidate of the iteration; when no candidate
\* has a strictly positive improvement, the MST, the tree length, the
\* terminal list and the Steiner-point set stay as they are and the pass ends.
C23_SingleBestAdoption ==
    [][OneBestAdopted /\ NoGainEndsPass]_vars

\* an iteration that chose among candidates of different positive improvement
C23_Witness ==
    /\ pc = "select"
    /\ candidate.found
    /\ \E i, j \in 1..Len(candidate.comps) :
          /\ candidate.comps[i] = candidate.comp
          /\ SimulatedImprovement(candidate.comps[j]) > 0
          /\ SimulatedImprovement(candidate.comps[j])
                < SimulatedImprovement(candidate.comps[i])

(***************************************************************************)
(* Steiner points as terminals.                                            *)
(***************************************************************************)
\* the nodes from which the candidate groups of an iteration are drawn: the
\* machine cells of the cables of each network, or every terminal when the
\* request has no cable
GroupNodes ==
    IF cables # <<>> /\ config.machines # <<>>
    THEN UNION {NetworkTerminals(cables, config.machines, net) :
                   net \in Range(NetworkOrder(cables, {}))}
    ELSE Range(terminals)

\* C24: once a component with the Steiner point s is adopted, s is a terminal
\* of every later iteration of the request: it is among the nodes from which
\* the candidate groups are drawn, so that a later candidate may have it as a
\* terminal.
C24_SteinerPointsBecomeTerminals ==
    pc \in {"iterate", "select"} =>
        \A s \in used_steiner_points :
            /\ s \in Range(terminals)
            /\ s \in GroupNodes

(***************************************************************************)
(* Convergence.  The handler runs a request to its end without waiting for *)
(* anything: as long as it has not answered, its position advances.  Every *)
(* step of Next changes pc, so the steps that advance pc are its steps.    *)
(***************************************************************************)
Positions == {"init", "graph_built", "iterate", "select", "converged", "done", "error"}

Answered == pc \in {"done", "error"}

Advance == ~Answered /\ pc' \in Positions /\ pc' # pc

FairSpec == Spec /\ WF_pc(Advance)

\* a new pass starts only after a pass that adopted something, and only
\* while passes are left
PassStarts ==
    pass_id' # pass_id /\ pc = "select" =>
        /\ improved_any
        /\ pass_id < max_passes
        /\ pass_id' = pass_id + 1

\* an iteration that adopts nothing in a pass that adopted nothing, or in the
\* last pass, ends the search
SearchEnds ==
    (/\ pc = "select"
     /\ total_comps_used' = total_comps_used
     /\ ~improved_any \/ pass_id = max_passes) =>
        pc' = "converged"

PassesBounded == pc \in {"iterate", "select"} => pass_id \in 1..max_passes

\* C25: the local search always reaches CONVERGED: the inner loop of a pass
\* ends after finitely many adoptions, the outer loop runs at most 5 passes
\* and stops at the first pass without adoption, and running out of passes
\* is a normal completion.
C25_LocalSearchConverges ==
    /\ (pc = "iterate") ~> (pc = "converged")
    /\ []PassesBounded
    /\ [][PassStarts /\ SearchEnds]_vars

\* the search has ended in a second pass, after a first pass of two adoptions
C25_Witness ==
    /\ pc = "converged"
    /\ pass_id = 2
    /\ passes_used = 1
    /\ total_comps_used >= 2

(***************************************************************************)
(* Redundant edges.                                                        *)
(***************************************************************************)
\* the edge list without its i-th edge
WithoutEdge(edges, i) == SubSeq(edges, 1, i - 1) \o SubSeq(edges, i + 1, Len(edges))

\* every machine cell is joined to every other by the pair-routes of the edges
MachinesJoined(edges) ==
    \A m \in MachineCells(config) :
        MachineCells(config) \subseteq Along(TreeSteps(edges, pair_routes), {m})

TreeStands == pc \in {"iterate", "select", "converged", "done"}

\* C26: after the initial MST and after every adoption no MST edge is
\* redundant: without any single edge of the current list, the pair-routes of
\* the remaining edges leave at least one machine terminal disconnected from
\* the other machine terminals.
C26_NoRedundantEdge ==
    TreeStands =>
        \A i \in 1..Len(mst_edges) : ~MachinesJoined(WithoutEdge(mst_edges, i))

(***************************************************************************)
(* The two weight functions                                                *)
(***************************************************************************)
MapsBuilt == pc # "init"

\* C27: at redCable = 1 and on every passable cell, under every placement
\* of walls and trays, calculate_cell_weight (the weight component_gain sums
\* for the removed and the added cells) returns the value _compute_weight
\* gives for the cell's entries of the two distance maps.
C27_WeightFunctionsAgree ==
    MapsBuilt =>
        \A c \in GridCells(config.width, config.height) :
            Passable(config, c) =>
                calculate_cell_weight(c, walls, config.trays)
                    = compute_weight(dist_wall[c], dist_tray[c], FullRed)

(***************************************************************************)
(* The tree at the level of cells                                          *)
(***************************************************************************)
\* steps left once every cell met by a single step has been taken away, again
\* and again: the steps that lie on a cycle or between two cycles
RECURSIVE Pruned(_)
Pruned(steps) ==
    LET leaves == {c \in UNION steps : Cardinality({st \in steps : c \in st}) = 1}
    IN IF leaves = {} THEN steps
       ELSE Pruned({st \in steps : st \cap leaves = {}})

NoCycle(steps) == Pruned(steps) = {}

\* C28: after the initial MST and after any adoptions, the union of the steps
\* of the pair-routes of the MST edges contains no cycle: the tree is a tree
\* at the level of cells.
C28_CellLevelTree ==
    TreeStands => NoCycle(TreeSteps(mst_edges, pair_routes))

(***************************************************************************)
(* Sections of one network                                                 *)
(***************************************************************************)
SectionsOverlap(s, t) ==
    /\ s # t
    /\ response.sections[s].network = response.sections[t].network
    /\ Steps(response.sections[s].points) \cap Steps(response.sections[t].points) # {}

\* C29: no two sections returned for the same network contain the same step
\* between two adjacent cells.
C29_SectionsDisjoint ==
    Returned =>
        \A s, t \in DOMAIN response.sections : ~SectionsOverlap(s, t)

(***************************************************************************)
(* Passes after the first                                                  *)
(***************************************************************************)
\* an adoption is the one step that counts a component as used
AdoptsInFirstPass == (total_comps_used' # total_comps_used) => pass_id = 1

PassesUsedSmall ==
    /\ passes_used \in {0, 1}
    /\ Returned => response.debug_info.passes_used \in {0, 1}

\* C30: a pass that follows a completed pass never adopts anything: every
\* adoption happens in pass 1, and passes_used, in the handler and in the
\* returned debug_info, is 0 or 1.
C30_OnlyFirstPassAdopts ==
    /\ []PassesUsedSmall
    /\ [][AdoptsInFirstPass]_vars

\* a request answered after a second pass opened behind a pass that adopted
C30_Witness ==
    /\ Returned
    /\ pass_id = 2
    /\ response.debug_info.passes_used = 1
    /\ response.debug_info.num_components_used >= 1
====
